---- MODULE Spec2Model ----
(***************************************************************************)
(* Model of minty-maintenance.                                             *)
(*                                                                         *)
(* Run engine: mint-maintainer-modular.py (MaintenanceOrchestrator, main)  *)
(* with the reporter and command runner of src/modules/utils/utils.py.     *)
(* One engine process is launched with a command line (optional positional *)
(* mode, optional --manifest file) and an environment (the log directory). *)
(* The step functions themselves are external units: each invocation is a  *)
(* nondeterministic choice among the outcomes runChapter distinguishes.    *)
(***************************************************************************)
EXTENDS Integers, Sequences, FiniteSets, TLC

(***************************************************************************)
(* Bounds of the model.                                                    *)
(***************************************************************************)
\* longest "selected" array of a manifest file
MaxSelected == 2
\* most step invocations of one run that do not simply return True
MaxFaults == 2

(***************************************************************************)
(* The catalogue (loadChapters).                                           *)
(***************************************************************************)
\* the chapter numbers, the keys of the dict loadChapters returns
NumChapters == 20
Chapters == 1..NumChapters

\* Python's None as the value of a chapter's 'module_id'
NoneId == "None"

\* chapter number -> chapter_info['module_id']
ModuleIdOf ==
  [n \in Chapters |->
     CASE n = 1  -> "sys:timeshift"
       [] n = 2  -> "apps:check_brew"
       [] n = 3  -> "sys:update_apt"
       [] n = 4  -> "clean:orphans"
       [] n = 5  -> "apps:update_flatpak"
       [] n = 6  -> "apps:update_snap"
       [] n = 7  -> "apps:update_python"
       [] n = 8  -> "apps:scan_standalone"
       [] n = 9  -> "sys:update_firmware"
       [] n = 10 -> "clean:logs"
       [] n = 11 -> "sys:manage_kernels"
       [] n = 12 -> "health:disk"
       [] n = 13 -> NoneId
       [] n = 14 -> "clean:docker"
       [] n = 15 -> "clean:updatedb"
       [] n = 16 -> "clean:bleachbit"
       [] n = 17 -> "sys:optimize_ssd"
       [] n = 18 -> "health:services"
       [] n = 19 -> "health:gpu"
       [] n = 20 -> "health:auto_updates"]

\* a createModuleIdMap whose loop misses the first chapter
MappedIds_skipsFirst ==
  {ModuleIdOf[n] : n \in {k \in Chapters : k > 1 /\ ModuleIdOf[k] # NoneId}}

\* createModuleIdMap: the ids that are keys of module_id_map (falsy ids are
\* left out), and the chapter each maps to (a later chapter with the same id
\* would overwrite an earlier one)
MappedIds == {ModuleIdOf[n] : n \in {k \in Chapters : ModuleIdOf[k] # NoneId}}

MaxOf(S) == CHOOSE x \in S : \A y \in S : y <= x

createModuleIdMap ==
  [id \in MappedIds |-> MaxOf({n \in Chapters : ModuleIdOf[n] = id})]

(***************************************************************************)
(* Manifest files.  A JSON object may lack any of its three fields.        *)
(***************************************************************************)
\* the checkpoint step
TimeshiftId == "sys:timeshift"

\* ids a manifest's "selected" array is drawn from; the last resolves to no
\* catalogue entry
UnknownId == "no:such_step"
IdPool == {TimeshiftId, "apps:update_flatpak", "clean:logs", UnknownId}

RECURSIVE SeqsUpTo(_, _)
SeqsUpTo(S, n) ==
  IF n = 0 THEN {<<>>}
  ELSE LET shorter == SeqsUpTo(S, n - 1)
       IN shorter \cup {Append(s, x) : s \in {t \in shorter : Len(t) = n - 1}, x \in S}

\* the "selected" arrays of the manifest files: the arrays over IdPool and
\* the selection of the kernel cleanup alone
SelectedArrays == SeqsUpTo(IdPool, MaxSelected) \cup {<<"sys:manage_kernels">>}

\* a manifest file's JSON object: has_f says whether key f is present
ManifestObjects ==
  {m \in [has_dry_run : BOOLEAN, dry_run : BOOLEAN,
          has_create_timeshift : BOOLEAN, create_timeshift : BOOLEAN,
          has_selected : BOOLEAN, selected : SelectedArrays] :
     /\ (~m.has_dry_run => ~m.dry_run)
     /\ (~m.has_create_timeshift => ~m.create_timeshift)
     /\ (~m.has_selected => m.selected = <<>>)}

EmptyObject ==
  [has_dry_run |-> FALSE, dry_run |-> FALSE,
   has_create_timeshift |-> FALSE, create_timeshift |-> FALSE,
   has_selected |-> FALSE, selected |-> <<>>]

\* dict.get(key, default) on the three keys
GetDryRun(m) == IF m.has_dry_run THEN m.dry_run ELSE FALSE
GetCreateTimeshift(m) == IF m.has_create_timeshift THEN m.create_timeshift ELSE FALSE
GetSelected(m) == IF m.has_selected THEN m.selected ELSE <<>>

\* Python truth value of a dict: false exactly for the empty dict
DictTruthy(m) == m.has_dry_run \/ m.has_create_timeshift \/ m.has_selected


(***************************************************************************)
(* State of one engine process.                                            *)
(***************************************************************************)
VARIABLES
  argMode,          \* positional argument: "none" or "dry-run"
  argManifest,      \* --manifest: "none" (not given), "unreadable", "file"
  manifestFile,     \* the JSON object in the manifest file
  logDirExists,     \* os.path.exists(dirname(MINTY_LOG_DIR + "/audit.jsonl"))
  manifest,         \* self.manifest: [loaded |-> FALSE] is None
  dry_run,          \* self.dry_run
  selected_modules, \* self.selected_modules
  runner_dry_run,   \* self.runner.dry_run
  chapters_to_run,  \* the list run() iterates over
  idx,              \* position of the loop of run() in chapters_to_run
  success,          \* local 'success' of runChapter
  stream,           \* the ::BEGIN / ::END lines printed so far
  auditLog,         \* the lines of audit.jsonl
  invoked,          \* chapters whose try block was entered, in order
  chapter_status,   \* reporter.chapter_status ("none": key absent)
  notes,            \* notes passed to setChapterStatus by the step that runs
  runResults,       \* what the CommandRunner.run calls so far returned
  faults,           \* invocations so far that did not simply return True
  notification,     \* which canned desktop notification was sent
  exitCode,         \* process exit status (-1: still running)
  pc                \* position of the process

engineVars ==
  <<argMode, argManifest, manifestFile, logDirExists, manifest, dry_run,
    selected_modules, runner_dry_run, chapters_to_run, idx, success, stream,
    auditLog, invoked, chapter_status, notes, notes, runResults, faults,
    notification, exitCode, pc>>

(***************************************************************************)
(* State of one interactive front-end (MaintenanceTUI and its ModuleTree). *)
(***************************************************************************)
VARIABLES
  frontend,          \* which front-end runs: "minty" (src/ui) or "menu"
  modules,           \* self.modules: id -> checked, partial, enabled
  tui_dry_run,       \* MaintenanceTUI.dry_run
  create_timeshift,  \* MaintenanceTUI.create_timeshift
  recommended_daily, \* MaintenanceTUI.recommended_daily
  cbValue,           \* value of every Checkbox widget
  cbDisabled,        \* disabled flag of every Checkbox widget
  group_expanded,    \* ModuleTree.group_expanded (menu front-end)
  queue,             \* Checkbox.Changed messages posted and not yet handled
  screen,            \* "select", "run" (RunView pushed) or "exited"
  run_manifest,      \* the manifest handed over by actionRun
  notice,            \* the toast raised by the last user operation
  lastOp,            \* the last user operation
  enabledBefore,     \* the enabled flags when the last user operation began
  toggleRun,         \* select-all operations in a row, counted 1, 2, 1, 2
  toggleOrigin       \* the leaves checked before the first of the pair

treeVars ==
  <<frontend, modules, tui_dry_run, create_timeshift, recommended_daily,
    cbValue, cbDisabled, group_expanded, queue, screen, run_manifest, notice,
    lastOp, enabledBefore, toggleRun, toggleOrigin>>

(***************************************************************************)
(* State of one RunView (the monitor) and of its subordinate process.      *)
(***************************************************************************)
VARIABLES
  view,              \* "none" (no RunView), "mounted" or "popped"
  scriptExists,      \* script_path.exists()
  selected_count,    \* self.selected_count, the declared step count
  current_module,    \* self.current_module
  completed_modules, \* self.completed_modules
  failed_modules,    \* self.failed_modules
  process,           \* self.process: "None" or "Process"
  log_dir,           \* self.log_dir
  elapsed_timer,     \* the interval timer is running
  run_title,         \* text of the #run-title label
  current_label,     \* text of the #current-module label
  progress_bar,      \* progress shown by the #progress-bar
  btnDisabled,       \* disabled flag of the three buttons
  elapsed_time,      \* seconds shown by the #elapsed-time label
  log_viewer,        \* what was written to the #log-viewer
  returncode,        \* self.process.returncode: <<>> is None, <<rc>> is rc
  pipe,              \* lines the process wrote that readline has not returned
  wrote,             \* every line the process wrote
  signals,           \* the signals sent to the process
  worker,            \* position of runMaintenance
  stopper,           \* position of onStop
  stop_presses       \* how often the stop button was pressed

monitorVars ==
  <<view, scriptExists, selected_count, current_module, completed_modules,
    failed_modules, process, log_dir, elapsed_timer, run_title,
    current_label, progress_bar, btnDisabled, elapsed_time, log_viewer,
    returncode, pipe, wrote, signals, worker, stopper, stop_presses>>

VARIABLES
  chapter_pc,        \* position inside runChapter ("idle": not modelled)
  chapter_no,        \* which step runChapter is running
  tee_mode,          \* module_log_path and MINTY_TEE are both set
  step_lines,        \* lines the running step has written so far
  raised,            \* the step function raised an Exception
  sys_stdout,        \* what sys.stdout names: "old_stdout" or "tee_stdin"
  sys_stderr,        \* what sys.stderr names: "old_stderr" or "tee_stdin"
  old_buffer,        \* lines buffered in the original sys.stdout
  tee_proc,          \* the tee child: "none", "running" or "exited"
  tee_buffer,        \* lines buffered in tee_proc.stdin
  tee_pipe,          \* lines in the pipe, written and not yet read by tee
  fd_out             \* lines that reached the engine's output stream

\* runChapter's view of its output: the stream the engine was started with
\* (fd_out), the buffer of the original sys.stdout (old_buffer), what
\* sys.stdout currently names, the tee child with the buffer of its stdin
\* (tee_buffer) and the pipe leading to it (tee_pipe)
outputVars ==
  <<chapter_pc, chapter_no, tee_mode, step_lines, raised, sys_stdout,
    sys_stderr, old_buffer, tee_proc, tee_buffer, tee_pipe, fd_out>>

vars == <<engineVars, treeVars, monitorVars, outputVars>>

\* self.manifest = None
NoManifest == [loaded |-> FALSE, obj |-> EmptyObject]

\* Python truth value of self.manifest
ManifestTruthy(m) == m.loaded /\ DictTruthy(m.obj)

\* an audit line left by an earlier run (the file is opened in append mode)
PriorAudit == << [id |-> "sys:update_apt", rc |-> 0] >>

StatusSuccess == "Success"
StatusAttention == "Needs Attention"

\* MaintenanceReporter.setChapterStatus
setChapterStatus(status, chapter_num, ok) ==
  [status EXCEPT ![chapter_num] = IF ok THEN StatusSuccess ELSE StatusAttention]

\* the note runChapter passes for a missing module file
NoteNotImplemented == "Not implemented"

\* any other note: the step's own text, or "Error: " and the exception's
NoteOther == "other text"

\* a missing module file recorded as a failure
NotImplementedOk_failure == FALSE

\* runChapter: the success value recorded and returned for a module file
\* that does not exist
NotImplementedOk == TRUE

\* chapter 11, cleanupKernels
KernelCleanup == 11

\* the success values a step can pass to setChapterStatus when it returns
\* ok: its return value; cleanupKernels records True ("Already clean")
\* also when it returns False because its first command failed
RecordedFor(chapter_num, ok) ==
  IF chapter_num = KernelCleanup /\ ~ok THEN {TRUE, FALSE} ELSE {ok}

\* MaintenanceReporter.isDryRun: the flag given to the constructor wins;
\* only without one (None) does sys.argv[1] decide
isDryRun(given, flag, argvIsDryRun) == IF given THEN flag ELSE argvIsDryRun

\* what an external command does when it is really run
ExternalResults == {"ok_silent", "ok_output", "fails"}

\* CommandRunner.run: (success, output), and whether the command was executed
CommandRunner_run(dry, ext) ==
  IF dry THEN [ok |-> TRUE, output |-> "", executed |-> FALSE]
  ELSE CASE ext = "ok_silent" -> [ok |-> TRUE, output |-> "", executed |-> TRUE]
         [] ext = "ok_output" -> [ok |-> TRUE, output |-> "stdout", executed |-> TRUE]
         [] ext = "fails"     -> [ok |-> FALSE, output |-> "stderr", executed |-> TRUE]

\* list.sort() on chapter numbers
SortChapters(s) == SortSeq(s, LAMBDA a, b : a < b)

\* a resolution loop that stops at the first id it cannot resolve (break
\* where the code skips)
RECURSIVE ResolveSelected_stopAtUnknown(_)
ResolveSelected_stopAtUnknown(sel) ==
  IF sel = <<>> THEN <<>>
  ELSE IF Head(sel) \in DOMAIN createModuleIdMap
         THEN <<createModuleIdMap[Head(sel)]>> \o ResolveSelected_stopAtUnknown(Tail(sel))
         ELSE <<>>

\* the body of 'for module_id in self.selected_modules' in run()
RECURSIVE ResolveSelected(_)
ResolveSelected(sel) ==
  IF sel = <<>> THEN <<>>
  ELSE LET rest == ResolveSelected(Tail(sel))
       IN IF Head(sel) \in DOMAIN createModuleIdMap
            THEN <<createModuleIdMap[Head(sel)]>> \o rest
            ELSE rest

\* 'if self.manifest.get('create_timeshift', False)' in run()
CheckpointPart(m) ==
  IF GetCreateTimeshift(m.obj) /\ TimeshiftId \in DOMAIN createModuleIdMap
    THEN <<createModuleIdMap[TimeshiftId]>>
    ELSE <<>>

\* sorted(self.chapters.keys())
AllChapters == [i \in 1..NumChapters |-> i]

\* the test 'if self.manifest:' in run()
UsesManifest(m) == ManifestTruthy(m)

\* run(): the chapters to run, in the order they are run
ChaptersToRun(m, sel) ==
  IF UsesManifest(m)
    THEN SortChapters(CheckpointPart(m) \o ResolveSelected(sel))
    ELSE AllChapters

BeginEvent(id) == [kind |-> "BEGIN", id |-> id, rc |-> 0]
EndEvent(id, rc) == [kind |-> "END", id |-> id, rc |-> rc]

CurrentChapter == chapters_to_run[idx]

(***************************************************************************)
(* The selection tree of the front-ends: its nodes and its widgets.        *)
(***************************************************************************)
Frontends == {"minty", "menu"}

\* the children lists of the four group items, in the order of module_defs
GroupChildren ==
  [sys    |-> <<"sys:timeshift", "sys:update_apt", "sys:manage_kernels",
                "sys:update_firmware", "sys:optimize_ssd">>,
   apps   |-> <<"apps:update_flatpak", "apps:update_snap", "apps:check_brew",
                "apps:update_python", "apps:scan_standalone">>,
   clean  |-> <<"clean:orphans", "clean:logs", "clean:docker",
                "clean:bleachbit", "clean:updatedb">>,
   health |-> <<"health:disk", "health:services", "health:gpu",
                "health:auto_updates">>]

GroupOrder == <<"sys", "apps", "clean", "health">>
Groups == DOMAIN GroupChildren

\* the ids of module_defs in the order they are inserted in self.modules
ModuleOrder ==
  <<"sys">> \o GroupChildren["sys"] \o <<"apps">> \o GroupChildren["apps"]
    \o <<"clean">> \o GroupChildren["clean"]
    \o <<"health">> \o GroupChildren["health"]

ModuleIds == {ModuleOrder[i] : i \in DOMAIN ModuleOrder}

\* ":" in id
HasColon(id) == id \notin Groups

Leaves == {id \in ModuleIds : HasColon(id)}

\* from_id.split(":")[0], for an id that holds a colon
SplitPrefix(id) ==
  CHOOSE g \in Groups : \E i \in DOMAIN GroupChildren[g] : GroupChildren[g][i] = id

\* mid.startswith(group_id + ":")
StartsWithGroup(mid, group_id) == HasColon(mid) /\ SplitPrefix(mid) = group_id

\* makeWidgetId: every character outside [A-Za-z0-9_-] becomes "-", and
\* "cb-" is put in front
makeWidgetId ==
  [id \in Leaves |->
     CASE id = "sys:timeshift"        -> "cb-sys-timeshift"
       [] id = "sys:update_apt"       -> "cb-sys-update_apt"
       [] id = "sys:manage_kernels"   -> "cb-sys-manage_kernels"
       [] id = "sys:update_firmware"  -> "cb-sys-update_firmware"
       [] id = "sys:optimize_ssd"     -> "cb-sys-optimize_ssd"
       [] id = "apps:update_flatpak"  -> "cb-apps-update_flatpak"
       [] id = "apps:update_snap"     -> "cb-apps-update_snap"
       [] id = "apps:check_brew"      -> "cb-apps-check_brew"
       [] id = "apps:update_python"   -> "cb-apps-update_python"
       [] id = "apps:scan_standalone" -> "cb-apps-scan_standalone"
       [] id = "clean:orphans"        -> "cb-clean-orphans"
       [] id = "clean:logs"           -> "cb-clean-logs"
       [] id = "clean:docker"         -> "cb-clean-docker"
       [] id = "clean:bleachbit"      -> "cb-clean-bleachbit"
       [] id = "clean:updatedb"       -> "cb-clean-updatedb"
       [] id = "health:disk"          -> "cb-health-disk"
       [] id = "health:services"      -> "cb-health-services"
       [] id = "health:gpu"           -> "cb-health-gpu"
       [] id = "health:auto_updates"  -> "cb-health-auto_updates"]

\* compose() of ModuleTree fills the map for the items of the four groups
WIDGET_ID_TO_MODULE_ID ==
  [w \in {makeWidgetId[id] : id \in Leaves} |->
     CHOOSE id \in Leaves : makeWidgetId[id] = w]

TreeBoxes == DOMAIN WIDGET_ID_TO_MODULE_ID

\* WIDGET_ID_TO_MODULE_ID.get(widget_id, "")
getModuleIdFromWidgetId(widget_id) ==
  IF widget_id \in TreeBoxes THEN WIDGET_ID_TO_MODULE_ID[widget_id] ELSE ""

\* the check boxes of the settings bar and of the macro panel
cbDryRun == "set-dry-run"
cbTimeshift == "set-timeshift"
cbMacroDaily == "macro-daily"

Boxes == TreeBoxes \cup {cbDryRun, cbTimeshift, cbMacroDaily}

initializeModules ==
  [id \in ModuleIds |->
     [checked |-> FALSE, partial |-> FALSE, enabled |-> (id # TimeshiftId)]]

\* no manifest has been handed over
NoRunManifest == [written |-> FALSE, obj |-> EmptyObject]

\* the three buttons of the RunView
Buttons == {"btn-stop", "btn-view-logs", "btn-back"}

\* RunView.__init__ and compose: the fields and widgets of a new RunView
RunViewConstructed(count) ==
  /\ selected_count = count
  /\ current_module = ""
  /\ completed_modules = 0
  /\ failed_modules = 0
  /\ process = "None"
  /\ log_dir = ""
  /\ run_title = "Running..."
  /\ current_label = <<"Initializing...">>
  /\ progress_bar = 0
  /\ btnDisabled = [b \in Buttons |-> b # "btn-stop"]
  /\ elapsed_time = 0
  /\ log_viewer = <<>>
  /\ returncode = <<>>
  /\ pipe = <<>>
  /\ wrote = <<>>
  /\ signals = <<>>
  /\ stopper = "idle"
  /\ stop_presses = 0

\* no RunView has been pushed
NoRunView ==
  /\ view = "none"
  /\ scriptExists = TRUE
  /\ elapsed_timer = FALSE
  /\ worker = "start"
  /\ RunViewConstructed(0)

\* no runChapter is followed line by line
NoChapterOutput ==
  /\ chapter_pc = "idle"
  /\ chapter_no = 0
  /\ tee_mode = FALSE
  /\ step_lines = 0
  /\ raised = FALSE
  /\ sys_stdout = "old_stdout"
  /\ sys_stderr = "old_stderr"
  /\ old_buffer = <<>>
  /\ tee_proc = "none"
  /\ tee_buffer = <<>>
  /\ tee_pipe = <<>>
  /\ fd_out = <<>>

\* the front-end f after __init__, compose and on_mount
TreeConstructed(f) ==
  /\ frontend = f
  /\ modules = initializeModules
  /\ tui_dry_run = TRUE
  /\ create_timeshift = FALSE
  /\ recommended_daily = FALSE
  /\ cbValue = [w \in Boxes |-> (w = cbDryRun)]
  /\ cbDisabled =
       [w \in Boxes |->
          \/ w = cbTimeshift
          \/ (w \in TreeBoxes /\ ~initializeModules[WIDGET_ID_TO_MODULE_ID[w]].enabled)]
  /\ group_expanded = [g \in Groups |-> TRUE]
  /\ queue = <<>>
  /\ screen = "select"
  /\ run_manifest = NoRunManifest
  /\ notice = "none"
  /\ lastOp = "none"
  /\ enabledBefore = [id \in ModuleIds |-> initializeModules[id].enabled]
  /\ toggleRun = 0
  /\ toggleOrigin = {}


Init ==
  /\ argMode \in {"none", "dry-run"}
  /\ argManifest \in {"none", "unreadable", "file"}
  /\ manifestFile \in ManifestObjects
  /\ (argManifest # "file" => manifestFile = EmptyObject)
  /\ logDirExists \in BOOLEAN
  /\ auditLog \in {<<>>, PriorAudit}
  /\ (~logDirExists => auditLog = <<>>)
  /\ manifest = NoManifest
  /\ dry_run = FALSE
  /\ selected_modules = <<>>
  /\ runner_dry_run = FALSE
  /\ chapters_to_run = <<>>
  /\ idx = 0
  /\ success = FALSE
  /\ stream = <<>>
  /\ invoked = <<>>
  /\ chapter_status = [n \in Chapters |-> "none"]
  /\ notes = ""
  /\ runResults = {}
  /\ faults = 0
  /\ notification = "none"
  /\ exitCode = -1
  /\ pc = "main"
  /\ TreeConstructed("minty")
  /\ NoRunView
  /\ NoChapterOutput

\* main() and MaintenanceOrchestrator.__init__ with a readable manifest or
\* without one
Construct ==
  /\ pc = "main"
  /\ argManifest # "unreadable"
  /\ LET m == IF argManifest = "file"
                THEN [loaded |-> TRUE, obj |-> manifestFile]
                ELSE NoManifest
         dr == IF argManifest = "file" THEN GetDryRun(manifestFile) ELSE FALSE
     IN /\ manifest' = m
        /\ dry_run' = dr
        /\ selected_modules' =
             (IF argManifest = "file" THEN GetSelected(manifestFile) ELSE <<>>)
        /\ runner_dry_run' = isDryRun(TRUE, dr, argMode = "dry-run")
  /\ pc' = "run"
  /\ UNCHANGED <<argMode, argManifest, manifestFile, logDirExists,
                 chapters_to_run, idx, success, stream, auditLog, invoked,
                 chapter_status, notes, runResults, faults, notification, exitCode>>
  /\ UNCHANGED <<treeVars, monitorVars, outputVars>>

\* __init__: open() or json.load() raises, nothing catches it
ConstructFails ==
  /\ pc = "main"
  /\ argManifest = "unreadable"
  /\ pc' = "aborted"
  /\ exitCode' = 1
  /\ UNCHANGED <<argMode, argManifest, manifestFile, logDirExists, manifest,
                 dry_run, selected_modules, runner_dry_run, chapters_to_run,
                 idx, success, stream, auditLog, invoked, chapter_status, notes,
                 runResults, faults, notification>>
  /\ UNCHANGED <<treeVars, monitorVars, outputVars>>

\* run(): the header is written and the list of chapters is determined
Resolve ==
  /\ pc = "run"
  /\ chapters_to_run' = ChaptersToRun(manifest, selected_modules)
  /\ idx' = 1
  /\ pc' = "loop"
  /\ UNCHANGED <<argMode, argManifest, manifestFile, logDirExists, manifest,
                 dry_run, selected_modules, runner_dry_run, success, stream,
                 auditLog, invoked, chapter_status, notes, runResults, faults,
                 notification, exitCode>>
  /\ UNCHANGED <<treeVars, monitorVars, outputVars>>

\* runChapter: the ::BEGIN line is printed
Begin ==
  /\ pc = "loop"
  /\ idx <= Len(chapters_to_run)
  /\ ModuleIdOf[CurrentChapter] # NoneId
  /\ success' = FALSE
  /\ stream' = Append(stream, BeginEvent(ModuleIdOf[CurrentChapter]))
  /\ pc' = "invoke"
  /\ UNCHANGED <<argMode, argManifest, manifestFile, logDirExists, manifest,
                 dry_run, selected_modules, runner_dry_run, chapters_to_run,
                 idx, auditLog, invoked, chapter_status, notes, runResults, faults,
                 notification, exitCode>>
  /\ UNCHANGED <<treeVars, monitorVars, outputVars>>

\* runChapter: "::BEGIN module=" + None raises TypeError before the try
\* block; nothing catches it and the process ends with a traceback
BeginRaises ==
  /\ pc = "loop"
  /\ idx <= Len(chapters_to_run)
  /\ ModuleIdOf[CurrentChapter] = NoneId
  /\ pc' = "aborted"
  /\ exitCode' = 1
  /\ UNCHANGED <<argMode, argManifest, manifestFile, logDirExists, manifest,
                 dry_run, selected_modules, runner_dry_run, chapters_to_run,
                 idx, success, stream, auditLog, invoked, chapter_status, notes,
                 runResults, faults, notification>>
  /\ UNCHANGED <<treeVars, monitorVars, outputVars>>

\* runChapter, try block: the module file does not exist
InvokeAbsent ==
  /\ pc = "invoke"
  /\ faults < MaxFaults
  /\ faults' = faults + 1
  /\ invoked' = Append(invoked, CurrentChapter)
  /\ chapter_status' =
       setChapterStatus(chapter_status, CurrentChapter, NotImplementedOk)
  /\ notes' = NoteNotImplemented
  /\ success' = NotImplementedOk
  /\ pc' = "end"
  /\ UNCHANGED <<argMode, argManifest, manifestFile, logDirExists, manifest,
                 dry_run, selected_modules, runner_dry_run, chapters_to_run,
                 idx, stream, auditLog, runResults, notification, exitCode>>
  /\ UNCHANGED <<treeVars, monitorVars, outputVars>>

\* runChapter, try block: the chapter function runs and returns ok; on its
\* way it may call runner.run, and it records its own status
InvokeReturns ==
  /\ pc = "invoke"
  /\ \E ok \in BOOLEAN :
       /\ (~ok => faults < MaxFaults)
       /\ faults' = IF ok THEN faults ELSE faults + 1
       /\ \E recorded \in RecordedFor(CurrentChapter, ok) :
            chapter_status' =
              setChapterStatus(chapter_status, CurrentChapter, recorded)
       /\ notes' = NoteOther
       /\ success' = ok
  /\ \/ UNCHANGED runResults
     \/ \E ext \in ExternalResults :
          runResults' = runResults \cup {CommandRunner_run(runner_dry_run, ext)}
  /\ invoked' = Append(invoked, CurrentChapter)
  /\ pc' = "end"
  /\ UNCHANGED <<argMode, argManifest, manifestFile, logDirExists, manifest,
                 dry_run, selected_modules, runner_dry_run, chapters_to_run,
                 idx, stream, auditLog, notification, exitCode>>
  /\ UNCHANGED <<treeVars, monitorVars, outputVars>>

\* runChapter, except block: the import or the chapter function raised
InvokeRaises ==
  /\ pc = "invoke"
  /\ faults < MaxFaults
  /\ faults' = faults + 1
  /\ invoked' = Append(invoked, CurrentChapter)
  /\ chapter_status' = setChapterStatus(chapter_status, CurrentChapter, FALSE)
  /\ notes' = NoteOther
  /\ success' = FALSE
  /\ pc' = "end"
  /\ UNCHANGED <<argMode, argManifest, manifestFile, logDirExists, manifest,
                 dry_run, selected_modules, runner_dry_run, chapters_to_run,
                 idx, stream, auditLog, runResults, notification, exitCode>>
  /\ UNCHANGED <<treeVars, monitorVars, outputVars>>

\* runChapter: exit_code = 0 if success else 1
ExitCodeOf(ok) == IF ok THEN 0 ELSE 1

\* runChapter: the ::END line is printed
End ==
  /\ pc = "end"
  /\ stream' = Append(stream, EndEvent(ModuleIdOf[CurrentChapter], ExitCodeOf(success)))
  /\ pc' = "audit"
  /\ UNCHANGED <<argMode, argManifest, manifestFile, logDirExists, manifest,
                 dry_run, selected_modules, runner_dry_run, chapters_to_run,
                 idx, success, auditLog, invoked, chapter_status, notes, runResults,
                 faults, notification, exitCode>>
  /\ UNCHANGED <<treeVars, monitorVars, outputVars>>

\* the audit file opened with 'w' where the code opens it with 'a'
AppendAudit_truncating(log, entry) == <<entry>>

\* the file audit.jsonl after runChapter's 'with open(audit_log, 'a')'
AppendAudit(log, entry) == Append(log, entry)

\* runChapter: the audit entry is written if the log directory exists, and
\* runChapter returns to the loop of run()
Audit ==
  /\ pc = "audit"
  /\ auditLog' =
       IF logDirExists
         THEN AppendAudit(auditLog,
                [id |-> ModuleIdOf[CurrentChapter], rc |-> ExitCodeOf(success)])
         ELSE auditLog
  /\ idx' = idx + 1
  /\ notes' = ""
  /\ pc' = "loop"
  /\ UNCHANGED <<argMode, argManifest, manifestFile, logDirExists, manifest,
                 dry_run, selected_modules, runner_dry_run, chapters_to_run,
                 success, stream, invoked, chapter_status, runResults, faults,
                 notification, exitCode>>
  /\ UNCHANGED <<treeVars, monitorVars, outputVars>>

\* run(): issue_count
IssueCount(status) == Cardinality({n \in Chapters : status[n] = StatusAttention})

\* an exit status that reports step failures
NormalExit_failOnIssues(status) == IF IssueCount(status) = 0 THEN 0 ELSE 1

\* main() returns after orchestrator.run(): the exit status of the process
\* is 0 whatever the chapter statuses are
NormalExit(status) == 0

\* run() after the loop: final summary and desktop notification; main()
\* returns and the process exits normally
Finish ==
  /\ pc = "loop"
  /\ idx > Len(chapters_to_run)
  /\ notification' =
       (IF IssueCount(chapter_status) = 0 THEN "all_successful" ELSE "need_attention")
  /\ exitCode' = NormalExit(chapter_status)
  /\ pc' = "done"
  /\ UNCHANGED <<argMode, argManifest, manifestFile, logDirExists, manifest,
                 dry_run, selected_modules, runner_dry_run, chapters_to_run,
                 idx, success, stream, auditLog, invoked, chapter_status, notes,
                 runResults, faults>>
  /\ UNCHANGED <<treeVars, monitorVars, outputVars>>

EngineNext ==
  \/ Construct
  \/ ConstructFails
  \/ Resolve
  \/ Begin
  \/ BeginRaises
  \/ InvokeAbsent
  \/ InvokeReturns
  \/ InvokeRaises
  \/ End
  \/ Audit
  \/ Finish

Next == EngineNext

EngineSpec == Init /\ [][EngineNext]_vars

\* the engine runs on: every step of the process is eventually taken
EngineLive == EngineSpec /\ WF_vars(EngineNext)

Spec == EngineSpec

TypeOK ==
  /\ pc \in {"main", "run", "loop", "invoke", "end", "audit", "done", "aborted"}
  /\ exitCode \in {-1, 0, 1}
  /\ faults \in 0..MaxFaults
  /\ idx \in 0..(Len(chapters_to_run) + 1)


(***************************************************************************)
(* The engine started with an existing log directory (the case in which    *)
(* audit logging is on).                                                   *)
(***************************************************************************)
LoggedInit == Init /\ logDirExists

EngineLoggedSpec == LoggedInit /\ [][EngineNext]_vars

(***************************************************************************)
(* Vocabulary of the properties.                                           *)
(***************************************************************************)
Terminated == pc \in {"done", "aborted"}

\* run() has determined the list of chapters
Resolved == idx >= 1

\* the loop of run() went through the whole list
AllStepsRan == Resolved /\ idx = Len(chapters_to_run) + 1

\* a manifest file was supplied with --manifest and could be read
ManifestSupplied == argManifest = "file"

Ids(s) == {s[i] : i \in DOMAIN s}

BeginsOf(id) == {i \in DOMAIN stream : stream[i] = BeginEvent(id)}
EndsOf(id) == {i \in DOMAIN stream : stream[i].kind = "END" /\ stream[i].id = id}

StreamIds == {stream[i].id : i \in DOMAIN stream}

\* the chapters for which a ::BEGIN line was printed, in order
RECURSIVE BegunChapters(_)
BegunChapters(s) ==
  IF s = <<>> THEN <<>>
  ELSE IF Head(s).kind = "BEGIN"
         THEN <<createModuleIdMap[Head(s).id]>> \o BegunChapters(Tail(s))
         ELSE BegunChapters(Tail(s))

\* (id, rc) of the ::END lines, in order
RECURSIVE EndRecords(_)
EndRecords(s) ==
  IF s = <<>> THEN <<>>
  ELSE IF Head(s).kind = "END"
         THEN <<[id |-> Head(s).id, rc |-> Head(s).rc]>> \o EndRecords(Tail(s))
         ELSE EndRecords(Tail(s))

IsPrefix(s, t) == Len(s) <= Len(t) /\ SubSeq(t, 1, Len(s)) = s

StrictlyAscending(s) == \A i, j \in DOMAIN s : i < j => s[i] < s[j]

\* the marker stream is BEGIN x, END x, BEGIN y, END y, ...
Alternates(s) ==
  \A i \in DOMAIN s :
    IF i % 2 = 1
      THEN s[i].kind = "BEGIN"
      ELSE s[i].kind = "END" /\ s[i].id = s[i - 1].id

(***************************************************************************)
(* C1.  Resolved execution list without repetition.                        *)
(***************************************************************************)
\* C1: for every supplied manifest the resolved execution list holds each
\* step at most once, and at most one BEGIN and one END are emitted per
\* step-id, also when create_timeshift is true and sys:timeshift is selected
\* or an id is repeated in selected.
C1_EachStepAtMostOnce ==
  ManifestSupplied =>
    /\ \A i, j \in DOMAIN chapters_to_run :
         i # j => chapters_to_run[i] # chapters_to_run[j]
    /\ \A id \in MappedIds :
         Cardinality(BeginsOf(id)) <= 1 /\ Cardinality(EndsOf(id)) <= 1

(***************************************************************************)
(* C2.  Classic mode runs the whole catalogue.                             *)
(***************************************************************************)
\* C2: without a manifest the run ends Completed, never aborted, having
\* emitted one BEGIN/END pair for each of the 20 catalogue entries in
\* ascending order of chapter number.
C2_ClassicRunsWholeCatalogue ==
  (argManifest = "none" /\ Terminated) =>
    /\ pc = "done"
    /\ Len(stream) = 2 * NumChapters
    /\ Alternates(stream)
    /\ invoked = AllChapters

(***************************************************************************)
(* C3.  A supplied manifest restricts the run to its selection.            *)
(***************************************************************************)
\* C3: for every supplied manifest, every executed step has its id in
\* selected or is the checkpoint step with create_timeshift true.
C3_OnlySelectedStepsRun ==
  ManifestSupplied =>
    \A i \in DOMAIN invoked :
      \/ ModuleIdOf[invoked[i]] \in Ids(GetSelected(manifestFile))
      \/ /\ ModuleIdOf[invoked[i]] = TimeshiftId
         /\ GetCreateTimeshift(manifestFile)

(***************************************************************************)
(* C4.  Dry-run executes no external command.                              *)
(***************************************************************************)
\* the run was asked to be a dry run: positional 'dry-run' without a
\* manifest, or a manifest whose dry_run is true
DryRunRequested ==
  \/ argMode = "dry-run" /\ argManifest = "none"
  \/ ManifestSupplied /\ GetDryRun(manifestFile)

\* C4: when a dry run was requested, every CommandRunner.run call returns
\* (True, "") and the external command is not invoked.
C4_DryRunExecutesNothing ==
  DryRunRequested =>
    \A r \in runResults : r.ok /\ r.output = "" /\ ~r.executed


(***************************************************************************)
(* C5.  Matched BEGIN/END pairs, one invocation per entry.                 *)
(***************************************************************************)
\* the audit lines written by this run, given the lines found at start
NewAuditLines(prior) == SubSeq(auditLog, Len(prior) + 1, Len(auditLog))

NumBegins == Cardinality({i \in DOMAIN stream : stream[i].kind = "BEGIN"})
NumEnds == Cardinality({i \in DOMAIN stream : stream[i].kind = "END"})

\* C5: the marker stream is a strict alternation of matched pairs (each BEGIN
\* for x is followed by one END for x before any other BEGIN, none is left
\* open when the process ends), each entry of the execution list is invoked
\* exactly once and never retried, and within a step the order is BEGIN,
\* invoke, END, audit record.
C5_MatchedPairsEachEntryOnce ==
  /\ Alternates(stream)
  /\ (Terminated => Len(stream) % 2 = 0)
  /\ IsPrefix(invoked, chapters_to_run)
  /\ ((Terminated /\ Resolved) => invoked = chapters_to_run)
  /\ \E prior \in {<<>>, PriorAudit} :
       /\ IsPrefix(prior, auditLog)
       /\ NumBegins >= Len(invoked)
       /\ Len(invoked) >= NumEnds
       /\ NumEnds >= Len(NewAuditLines(prior))
       /\ Len(NewAuditLines(prior)) >= NumBegins - 1

(***************************************************************************)
(* C6.  A failing step does not end the run.                               *)
(***************************************************************************)
\* C6: a step whose invocation raised or returned false gets its END with
\* rc=1 and its audit record, and the run goes on to execute every
\* remaining step of the execution list: it ends Completed with every entry
\* invoked.
C6_FailedStepRunContinues ==
  /\ (pc = "audit" /\ ~success) =>
       stream[Len(stream)] = EndEvent(ModuleIdOf[CurrentChapter], 1)
  /\ (Terminated /\ \E i \in DOMAIN stream : stream[i].kind = "END" /\ stream[i].rc = 1) =>
       /\ pc = "done"
       /\ invoked = chapters_to_run
       /\ \E prior \in {<<>>, PriorAudit} :
            /\ IsPrefix(prior, auditLog)
            /\ NewAuditLines(prior) = EndRecords(stream)

AuditedEnds ==
  IF pc = "audit" THEN EndRecords(SubSeq(stream, 1, Len(stream) - 1))
  ELSE EndRecords(stream)

HasUnknownSelected ==
  ManifestSupplied /\ \E id \in Ids(GetSelected(manifestFile)) : id \notin MappedIds

\* the ids a manifest asks for that the catalogue knows
RequestedKnownIds(m) ==
  (Ids(GetSelected(m)) \cap MappedIds)
    \cup (IF GetCreateTimeshift(m) THEN {TimeshiftId} ELSE {})

C10_AscendingExactSelection ==
  ManifestSupplied =>
    /\ StrictlyAscending(invoked)
    /\ {ModuleIdOf[invoked[i]] : i \in DOMAIN invoked} \subseteq RequestedKnownIds(manifestFile)
    /\ (pc = "done" =>
          {ModuleIdOf[invoked[i]] : i \in DOMAIN invoked} = RequestedKnownIds(manifestFile))
    /\ ( ( /\ pc = "done"
           /\ GetSelected(manifestFile) = <<"apps:update_flatpak", "clean:logs">>
           /\ GetCreateTimeshift(manifestFile) )
         => invoked = <<1, 5, 10>> )

(***************************************************************************)
(* C11.  A manifest that selects nothing.                                  *)
(***************************************************************************)
\* the supplied manifest names no step and does not ask for the checkpoint
SelectsNothing ==
  /\ ManifestSupplied
  /\ GetSelected(manifestFile) = <<>>
  /\ ~GetCreateTimeshift(manifestFile)

\* C11: given a manifest that selects no step and has create_timeshift
\* false, the engine emits no BEGIN and no END, writes no audit record, and
\* exits with code 0.
C11_EmptySelectionRunsNothing ==
  SelectsNothing =>
    /\ stream = <<>>
    /\ auditLog \in {<<>>, PriorAudit}
    /\ (Terminated => exitCode = 0)


(***************************************************************************)
(* The selection tree: the operations of ModuleTree.                       *)
(***************************************************************************)
\* ModuleTree.setModuleChecked
setModuleChecked(mods, module_id, checked) ==
  IF module_id \in DOMAIN mods
    THEN [mods EXCEPT ![module_id].checked = checked,
                      ![module_id].partial = FALSE]
    ELSE mods

\* ModuleTree.isParent: the item has children
isParent(module_id) == module_id \in Groups

\* the children list of an item
ChildrenOf(module_id) ==
  IF module_id \in Groups THEN GroupChildren[module_id] ELSE <<>>

\* ModuleTree.setChildrenChecked, the part that changes self.modules
setChildrenChecked(mods, parent_id, checked) ==
  [id \in DOMAIN mods |->
     IF id \in {ChildrenOf(parent_id)[i] : i \in DOMAIN ChildrenOf(parent_id)}
       THEN [mods[id] EXCEPT !.checked = checked, !.partial = FALSE]
       ELSE mods[id]]

\* a recomputation that marks a mixed group as checked
recomputeTriStateUp_mixedChecked(mods, from_id) ==
  IF ~HasColon(from_id) THEN mods
  ELSE LET group_id == SplitPrefix(from_id)
           children_ids == {mid \in DOMAIN mods : StartsWithGroup(mid, group_id)}
           checked_count == Cardinality({cid \in children_ids : mods[cid].checked})
       IN [mods EXCEPT ![group_id].checked = (checked_count > 0),
                       ![group_id].partial = FALSE]

\* ModuleTree.recomputeTriStateUp
recomputeTriStateUp(mods, from_id) ==
  IF ~HasColon(from_id) THEN mods
  ELSE LET group_id == SplitPrefix(from_id)
           children_ids == {mid \in DOMAIN mods : StartsWithGroup(mid, group_id)}
           checked_count == Cardinality({cid \in children_ids : mods[cid].checked})
       IN IF children_ids = {} \/ group_id \notin DOMAIN mods THEN mods
          ELSE IF checked_count = 0
            THEN [mods EXCEPT ![group_id].checked = FALSE,
                              ![group_id].partial = FALSE]
          ELSE IF checked_count = Cardinality(children_ids)
            THEN [mods EXCEPT ![group_id].checked = TRUE,
                              ![group_id].partial = FALSE]
          ELSE [mods EXCEPT ![group_id].checked = FALSE,
                            ![group_id].partial = TRUE]

(***************************************************************************)
(* Check boxes and their Changed messages.                                 *)
(***************************************************************************)
Changed(w, v) == [widget |-> w, value |-> v]

\* a check box that posts nothing when its value is assigned
PostedBy_never(values, w, v) == <<>>

\* assigning Checkbox.value posts Checkbox.Changed when the value changes
PostedBy(values, w, v) ==
  IF values[w] # v THEN <<Changed(w, v)>> ELSE <<>>

\* a loop over the boxes whose assignments post nothing
PostedAll_none(values, ws, v) == <<>>

\* the messages posted when the boxes ws are assigned v one after the other
RECURSIVE PostedAll(_, _, _)
PostedAll(values, ws, v) ==
  IF ws = <<>> THEN <<>>
  ELSE PostedBy(values, Head(ws), v) \o PostedAll(values, Tail(ws), v)

\* the values of the boxes after that
AssignAll(values, ws, v) ==
  [w \in DOMAIN values |->
     IF w \in {ws[i] : i \in DOMAIN ws} THEN v ELSE values[w]]

\* the tree check boxes of a list of items
BoxesOf(ids) == [i \in DOMAIN ids |-> makeWidgetId[ids[i]]]

TimeshiftBox == makeWidgetId[TimeshiftId]

\* no message is waiting: every handler has run
Quiescent == queue = <<>>

\* the selection screen is shown and waits for the user
UserTurn == screen = "select" /\ Quiescent

\* bookkeeping of a user operation
Mark(op, toast) ==
  /\ lastOp' = op
  /\ notice' = toast
  /\ enabledBefore' = [id \in ModuleIds |-> modules[id].enabled]
  /\ toggleRun' = (IF op # "select_all" THEN 0
                   ELSE IF toggleRun = 1 THEN 2 ELSE 1)
  /\ toggleOrigin' = (IF op # "select_all" THEN {}
                      ELSE IF toggleRun = 1 THEN toggleOrigin
                      ELSE {id \in Leaves : modules[id].checked})

\* the leaves whose check boxes the user clicks
ClickPool == {"sys:timeshift", "sys:update_apt", "apps:update_flatpak", "health:disk"}

\* the leaves clicked when one or two groups are worked through leaf by leaf
LeafPool ==
  {id \in Leaves : SplitPrefix(id) \in {"sys", "health"}}

\* the group headers the user presses
HeaderPool == {"sys"}


(***************************************************************************)
(* The user's operations on the selection screen.                          *)
(***************************************************************************)
\* the user toggles the check box of a leaf: the box must be enabled and,
\* in the collapsible tree, its group expanded
ClickLeaf(id) ==
  /\ UserTurn
  /\ ~cbDisabled[makeWidgetId[id]]
  /\ (frontend = "menu" => group_expanded[SplitPrefix(id)])
  /\ cbValue' = [cbValue EXCEPT ![makeWidgetId[id]] = ~@]
  /\ queue' = PostedBy(cbValue, makeWidgetId[id], ~cbValue[makeWidgetId[id]])
  /\ Mark("click", "none")
  /\ UNCHANGED <<frontend, modules, tui_dry_run, create_timeshift,
                 recommended_daily, cbDisabled, group_expanded, screen,
                 run_manifest>>
  /\ UNCHANGED <<engineVars, monitorVars, outputVars>>

\* the user toggles the Dry-run box
ClickDryRun ==
  /\ UserTurn
  /\ ~cbDisabled[cbDryRun]
  /\ cbValue' = [cbValue EXCEPT ![cbDryRun] = ~@]
  /\ queue' = PostedBy(cbValue, cbDryRun, ~cbValue[cbDryRun])
  /\ Mark("dry_run", "none")
  /\ UNCHANGED <<frontend, modules, tui_dry_run, create_timeshift,
                 recommended_daily, cbDisabled, group_expanded, screen,
                 run_manifest>>
  /\ UNCHANGED <<engineVars, monitorVars, outputVars>>

\* the user toggles the checkpoint box of the settings bar
ClickTimeshift ==
  /\ UserTurn
  /\ ~cbDisabled[cbTimeshift]
  /\ cbValue' = [cbValue EXCEPT ![cbTimeshift] = ~@]
  /\ queue' = PostedBy(cbValue, cbTimeshift, ~cbValue[cbTimeshift])
  /\ Mark("timeshift", "none")
  /\ UNCHANGED <<frontend, modules, tui_dry_run, create_timeshift,
                 recommended_daily, cbDisabled, group_expanded, screen,
                 run_manifest>>
  /\ UNCHANGED <<engineVars, monitorVars, outputVars>>

\* the user toggles the Recommended Daily box (menu front-end only)
ClickMacroDaily ==
  /\ UserTurn
  /\ frontend = "menu"
  /\ cbValue' = [cbValue EXCEPT ![cbMacroDaily] = ~@]
  /\ queue' = PostedBy(cbValue, cbMacroDaily, ~cbValue[cbMacroDaily])
  /\ Mark("macro", "none")
  /\ UNCHANGED <<frontend, modules, tui_dry_run, create_timeshift,
                 recommended_daily, cbDisabled, group_expanded, screen,
                 run_manifest>>
  /\ UNCHANGED <<engineVars, monitorVars, outputVars>>

\* ModuleTree.onGroupHeaderPressed (menu front-end): the header of a group
\* is a button that expands or collapses the group
onGroupHeaderPressed(group_id) ==
  /\ UserTurn
  /\ frontend = "menu"
  /\ group_expanded' = [group_expanded EXCEPT ![group_id] = ~@]
  /\ Mark("header", "none")
  /\ UNCHANGED <<frontend, modules, tui_dry_run, create_timeshift,
                 recommended_daily, cbValue, cbDisabled, queue, screen,
                 run_manifest>>
  /\ UNCHANGED <<engineVars, monitorVars, outputVars>>

(***************************************************************************)
(* The handlers of Checkbox.Changed.                                       *)
(***************************************************************************)
\* ModuleTree.onCheckboxChanged
onCheckboxChanged ==
  /\ queue # <<>>
  /\ Head(queue).widget \in TreeBoxes
  /\ LET module_id == getModuleIdFromWidgetId(Head(queue).widget)
         new_value == Head(queue).value
         m1 == setModuleChecked(modules, module_id, new_value)
         m2 == IF isParent(module_id)
                 THEN setChildrenChecked(m1, module_id, new_value)
                 ELSE m1
         boxes == IF isParent(module_id)
                    THEN BoxesOf(ChildrenOf(module_id))
                    ELSE <<>>
     IN /\ module_id # ""
        /\ modules' = recomputeTriStateUp(m2, module_id)
        /\ cbValue' = AssignAll(cbValue, boxes, new_value)
        /\ queue' = Tail(queue) \o PostedAll(cbValue, boxes, new_value)
  /\ UNCHANGED <<frontend, tui_dry_run, create_timeshift, recommended_daily,
                 cbDisabled, group_expanded, screen, run_manifest, notice,
                 lastOp, enabledBefore, toggleRun, toggleOrigin>>
  /\ UNCHANGED <<engineVars, monitorVars, outputVars>>

\* MaintenanceTUI.onDryRunChanged (minty front-end)
onDryRunChanged ==
  /\ queue # <<>>
  /\ Head(queue).widget = cbDryRun
  /\ frontend = "minty"
  /\ LET val == Head(queue).value
         clear == val /\ cbValue[cbTimeshift]
     IN /\ tui_dry_run' = val
        /\ cbDisabled' = [cbDisabled EXCEPT ![cbTimeshift] = val,
                                            ![TimeshiftBox] = val]
        /\ cbValue' = IF clear THEN [cbValue EXCEPT ![cbTimeshift] = FALSE]
                      ELSE cbValue
        /\ queue' = Tail(queue) \o
                      (IF clear THEN PostedBy(cbValue, cbTimeshift, FALSE)
                       ELSE <<>>)
        /\ modules' = [modules EXCEPT ![TimeshiftId].enabled = ~val]
  /\ UNCHANGED <<frontend, create_timeshift, recommended_daily,
                 group_expanded, screen, run_manifest, notice, lastOp,
                 enabledBefore, toggleRun, toggleOrigin>>
  /\ UNCHANGED <<engineVars, monitorVars, outputVars>>

\* MaintenanceTUI.handleDryRunChange (menu front-end)
handleDryRunChange ==
  /\ queue # <<>>
  /\ Head(queue).widget = cbDryRun
  /\ frontend = "menu"
  /\ LET val == Head(queue).value
     IN /\ tui_dry_run' = val
        /\ cbDisabled' = [cbDisabled EXCEPT ![cbTimeshift] = val,
                                            ![TimeshiftBox] = val]
        /\ modules' = [modules EXCEPT ![TimeshiftId].enabled = ~val]
  /\ queue' = Tail(queue)
  /\ UNCHANGED <<frontend, create_timeshift, recommended_daily, cbValue,
                 group_expanded, screen, run_manifest, notice, lastOp,
                 enabledBefore, toggleRun, toggleOrigin>>
  /\ UNCHANGED <<engineVars, monitorVars, outputVars>>

\* MaintenanceTUI.onTimeshiftChanged, and handleTimeshiftChange of the menu
\* front-end, which has the same body
onTimeshiftChanged ==
  /\ queue # <<>>
  /\ Head(queue).widget = cbTimeshift
  /\ LET value == Head(queue).value
     IN /\ create_timeshift' = value
        /\ modules' = [modules EXCEPT ![TimeshiftId].checked = value]
        /\ cbValue' = [cbValue EXCEPT ![TimeshiftBox] = value]
        /\ queue' = Tail(queue) \o PostedBy(cbValue, TimeshiftBox, value)
  /\ UNCHANGED <<frontend, tui_dry_run, recommended_daily, cbDisabled,
                 group_expanded, screen, run_manifest, notice, lastOp,
                 enabledBefore, toggleRun, toggleOrigin>>
  /\ UNCHANGED <<engineVars, monitorVars, outputVars>>

\* handleMacroDaily: daily_modules
DailyModules ==
  <<"apps:update_flatpak", "apps:update_snap", "apps:check_brew",
    "apps:update_python", "apps:scan_standalone",
    "sys:update_apt", "clean:orphans", "clean:logs", "clean:updatedb">>

\* MaintenanceTUI.handleMacroDaily (menu front-end)
handleMacroDaily ==
  /\ queue # <<>>
  /\ Head(queue).widget = cbMacroDaily
  /\ recommended_daily' = Head(queue).value
  /\ IF Head(queue).value
       THEN /\ cbValue' =
                 [AssignAll(cbValue, BoxesOf(DailyModules), TRUE)
                    EXCEPT ![cbDryRun] = FALSE, ![cbTimeshift] = TRUE]
            /\ cbDisabled' = [cbDisabled EXCEPT ![cbTimeshift] = FALSE]
            /\ modules' =
                 [id \in ModuleIds |->
                    IF id \in {DailyModules[i] : i \in DOMAIN DailyModules}
                      THEN [modules[id] EXCEPT !.checked = TRUE]
                      ELSE modules[id]]
            /\ queue' = Tail(queue)
                 \o PostedBy(cbValue, cbDryRun, FALSE)
                 \o PostedBy(cbValue, cbTimeshift, TRUE)
                 \o PostedAll(cbValue, BoxesOf(DailyModules), TRUE)
       ELSE /\ queue' = Tail(queue)
            /\ UNCHANGED <<cbValue, cbDisabled, modules>>
  /\ UNCHANGED <<frontend, tui_dry_run, create_timeshift, group_expanded,
                 screen, run_manifest, notice, lastOp, enabledBefore, toggleRun, toggleOrigin>>
  /\ UNCHANGED <<engineVars, monitorVars, outputVars>>


(***************************************************************************)
(* Reset, select all, run.                                                 *)
(***************************************************************************)
\* the leaves in the order of self.modules.values()
LeafOrder == SelectSeq(ModuleOrder, HasColon)

\* actionReset: module.checked = False for every item
ResetResult(mods) ==
  [id \in DOMAIN mods |-> [mods[id] EXCEPT !.checked = FALSE]]

\* MaintenanceTUI.actionReset (minty front-end)
actionReset ==
  /\ UserTurn
  /\ frontend = "minty"
  /\ cbValue' =
       [AssignAll(cbValue, BoxesOf(LeafOrder), FALSE)
          EXCEPT ![cbDryRun] = TRUE, ![cbTimeshift] = FALSE]
  /\ cbDisabled' = [cbDisabled EXCEPT ![cbTimeshift] = TRUE]
  /\ modules' = ResetResult(modules)
  /\ queue' = PostedBy(cbValue, cbDryRun, TRUE)
                \o PostedBy(cbValue, cbTimeshift, FALSE)
                \o PostedAll(cbValue, BoxesOf(LeafOrder), FALSE)
  /\ Mark("reset", "Reset to defaults")
  /\ UNCHANGED <<frontend, tui_dry_run, create_timeshift, recommended_daily,
                 group_expanded, screen, run_manifest>>
  /\ UNCHANGED <<engineVars, monitorVars, outputVars>>

\* MaintenanceTUI.actionReset (menu front-end)
menu_actionReset ==
  /\ UserTurn
  /\ frontend = "menu"
  /\ cbValue' =
       [AssignAll(cbValue, BoxesOf(LeafOrder), FALSE)
          EXCEPT ![cbDryRun] = TRUE, ![cbTimeshift] = FALSE,
                 ![cbMacroDaily] = FALSE]
  /\ modules' = ResetResult(modules)
  /\ queue' = PostedBy(cbValue, cbDryRun, TRUE)
                \o PostedBy(cbValue, cbTimeshift, FALSE)
                \o PostedBy(cbValue, cbMacroDaily, FALSE)
                \o PostedAll(cbValue, BoxesOf(LeafOrder), FALSE)
  /\ Mark("reset", "Reset to defaults")
  /\ UNCHANGED <<frontend, tui_dry_run, create_timeshift, recommended_daily,
                 cbDisabled, group_expanded, screen, run_manifest>>
  /\ UNCHANGED <<engineVars, monitorVars, outputVars>>

\* a test that never finds a selected module
AnySelected_never(mods) == FALSE

\* action_select_all: any_selected
AnySelected(mods) == \E id \in DOMAIN mods : HasColon(id) /\ mods[id].checked

\* action_select_all: the items the loop assigns to
ToggledLeaves(mods) ==
  SelectSeq(ModuleOrder, LAMBDA id : HasColon(id) /\ mods[id].enabled)

\* action_select_all: self.modules after the loop
SelectAllResult(mods) ==
  [id \in DOMAIN mods |->
     IF HasColon(id) /\ mods[id].enabled
       THEN [mods[id] EXCEPT !.checked = ~AnySelected(mods)]
       ELSE mods[id]]

\* MaintenanceTUI.action_select_all (the same in both front-ends)
action_select_all ==
  /\ UserTurn
  /\ modules' = SelectAllResult(modules)
  /\ cbValue' = AssignAll(cbValue, BoxesOf(ToggledLeaves(modules)),
                          ~AnySelected(modules))
  /\ queue' = PostedAll(cbValue, BoxesOf(ToggledLeaves(modules)),
                        ~AnySelected(modules))
  /\ Mark("select_all", "none")
  /\ UNCHANGED <<frontend, tui_dry_run, create_timeshift, recommended_daily,
                 cbDisabled, group_expanded, screen, run_manifest>>
  /\ UNCHANGED <<engineVars, monitorVars, outputVars>>

\* a selection that does not filter on ":" in the id
SelectedOf_withGroups(mods) ==
  SelectSeq(ModuleOrder, LAMBDA id : mods[id].checked)

\* actionRun: selected
SelectedOf(mods) ==
  SelectSeq(ModuleOrder, LAMBDA id : mods[id].checked /\ HasColon(id))

\* actionRun: manifest
ManifestOf(dry, ts, selected) ==
  [has_dry_run |-> TRUE, dry_run |-> dry,
   has_create_timeshift |-> TRUE, create_timeshift |-> ts,
   has_selected |-> TRUE, selected |-> selected]

\* a run action without the test for an empty selection
actionRun_alwaysRuns ==
  /\ UserTurn
  /\ run_manifest' =
       [written |-> TRUE,
        obj |-> ManifestOf(tui_dry_run, create_timeshift,
                           SelectedOf(modules))]
  /\ screen' = (IF frontend = "minty" THEN "run" ELSE "exited")
  /\ Mark("run", "none")
  /\ UNCHANGED <<frontend, modules, tui_dry_run, create_timeshift,
                 recommended_daily, cbValue, cbDisabled, group_expanded,
                 queue>>
  /\ UNCHANGED <<engineVars, monitorVars, outputVars>>

\* MaintenanceTUI.actionRun: refuses an empty selection, otherwise writes
\* the manifest and pushes the RunView (minty) or exits with the path (menu)
actionRun ==
  /\ UserTurn
  /\ IF SelectedOf(modules) = <<>> /\ ~create_timeshift
       THEN /\ Mark("run", "No modules selected")
            /\ UNCHANGED <<run_manifest, screen>>
       ELSE /\ run_manifest' =
                 [written |-> TRUE,
                  obj |-> ManifestOf(tui_dry_run, create_timeshift,
                                     SelectedOf(modules))]
            /\ screen' = (IF frontend = "minty" THEN "run" ELSE "exited")
            /\ Mark("run", "none")
  /\ UNCHANGED <<frontend, modules, tui_dry_run, create_timeshift,
                 recommended_daily, cbValue, cbDisabled, group_expanded,
                 queue>>
  /\ UNCHANGED <<engineVars, monitorVars, outputVars>>

\* RunView.onBack: the RunView is popped and the selection screen is back
onBack ==
  /\ screen = "run"
  /\ screen' = "select"
  /\ run_manifest' = NoRunManifest
  /\ Mark("back", "none")
  /\ UNCHANGED <<frontend, modules, tui_dry_run, create_timeshift,
                 recommended_daily, cbValue, cbDisabled, group_expanded,
                 queue>>
  /\ UNCHANGED <<engineVars, monitorVars, outputVars>>

\* MaintenanceTUI.action_quit
action_quit ==
  /\ UserTurn
  /\ screen' = "exited"
  /\ Mark("quit", "none")
  /\ UNCHANGED <<frontend, modules, tui_dry_run, create_timeshift,
                 recommended_daily, cbValue, cbDisabled, group_expanded,
                 queue, run_manifest>>
  /\ UNCHANGED <<engineVars, monitorVars, outputVars>>

(***************************************************************************)
(* The front-end as a state machine.                                       *)
(***************************************************************************)
\* no engine process has been started
EngineIdle ==
  /\ argMode = "none"
  /\ argManifest = "none"
  /\ manifestFile = EmptyObject
  /\ logDirExists = FALSE
  /\ auditLog = <<>>
  /\ manifest = NoManifest
  /\ dry_run = FALSE
  /\ selected_modules = <<>>
  /\ runner_dry_run = FALSE
  /\ chapters_to_run = <<>>
  /\ idx = 0
  /\ success = FALSE
  /\ stream = <<>>
  /\ invoked = <<>>
  /\ chapter_status = [n \in Chapters |-> "none"]
  /\ notes = ""
  /\ runResults = {}
  /\ faults = 0
  /\ notification = "none"
  /\ exitCode = -1
  /\ pc = "main"

TreeInit ==
  /\ EngineIdle
  /\ NoRunView
  /\ NoChapterOutput
  /\ \E f \in Frontends : TreeConstructed(f)

TreeNext ==
  \/ \E id \in ClickPool : ClickLeaf(id)
  \/ ClickDryRun
  \/ ClickTimeshift
  \/ ClickMacroDaily
  \/ \E g \in HeaderPool : onGroupHeaderPressed(g)
  \/ onCheckboxChanged
  \/ onDryRunChanged
  \/ handleDryRunChange
  \/ onTimeshiftChanged
  \/ handleMacroDaily
  \/ actionReset
  \/ menu_actionReset
  \/ action_select_all
  \/ actionRun
  \/ onBack
  \/ action_quit

TreeSpec == TreeInit /\ [][TreeNext]_vars

\* only the check boxes of leaves are clicked
LeafNext ==
  \/ \E id \in LeafPool : ClickLeaf(id)
  \/ onCheckboxChanged

LeafSpec == TreeInit /\ [][LeafNext]_vars

TreeTypeOK ==
  /\ frontend \in Frontends
  /\ screen \in {"select", "run", "exited"}
  /\ DOMAIN modules = ModuleIds
  /\ \A i \in DOMAIN queue : queue[i].widget \in Boxes


(***************************************************************************)
(* C12.  The tri-state of the groups.                                      *)
(***************************************************************************)
ChildLeaves(g) == {GroupChildren[g][i] : i \in DOMAIN GroupChildren[g]}

AllChecked(mods, g) == \A c \in ChildLeaves(g) : mods[c].checked
SomeChecked(mods, g) == \E c \in ChildLeaves(g) : mods[c].checked

TriState(mods, g) ==
  IF AllChecked(mods, g) THEN <<TRUE, FALSE>>
  ELSE IF ~SomeChecked(mods, g) THEN <<FALSE, FALSE>>
  ELSE <<FALSE, TRUE>>

\* the step handles the Changed message of a leaf's check box
HandlesLeafChange ==
  /\ queue # <<>>
  /\ Head(queue).widget \in TreeBoxes
  /\ queue' = Tail(queue)

\* C13: starting from the initial tree and changing leaves only, each
\* handled leaf change leaves the leaf's group with the pair that a
\* recomputation from scratch over the current leaves gives ((true,false)
\* for all, (false,false) for none, (false,true) for a mix), and so does
\* every group once all changes are handled.
C13_LeafChangesMatchRecomputation ==
  /\ [](Quiescent =>
          \A g \in Groups :
            <<modules[g].checked, modules[g].partial>> = TriState(modules, g))
  /\ [][HandlesLeafChange =>
          LET g == SplitPrefix(getModuleIdFromWidgetId(Head(queue).widget))
          IN /\ modules'[getModuleIdFromWidgetId(Head(queue).widget)].checked
                  = Head(queue).value
             /\ <<modules'[g].checked, modules'[g].partial>> = TriState(modules', g)]_vars

\* leaf by leaf, one group was brought to all checked and another to a mix
C13_Witness ==
  /\ Quiescent
  /\ lastOp = "click"
  /\ TriState(modules, "health") = <<TRUE, FALSE>>
  /\ modules["health"].checked
  /\ TriState(modules, "sys") = <<FALSE, TRUE>>
  /\ modules["sys"].partial


(***************************************************************************)
(* C14.  Disabled leaves and the group above them.                         *)
(***************************************************************************)
\* the group has a leaf whose enabled flag is false
HasDisabledLeaf(g) == \E c \in ChildLeaves(g) : ~modules[c].enabled

C15_DryRunGatesCheckpoint ==
  (Quiescent /\ tui_dry_run) =>
    /\ ~modules[TimeshiftId].enabled
    /\ ~modules[TimeshiftId].checked


(***************************************************************************)
(* C16, C17.  The manifest handed over by the run action.                  *)
(***************************************************************************)
\* actionRun has just written a manifest: the tree is as it was then
ManifestProduced == run_manifest.written

\* C16: the create_timeshift field of every produced manifest equals the
\* checked value the checkpoint leaf sys:timeshift has at that moment.
C16_CheckpointFieldIsLeafChecked ==
  ManifestProduced =>
    (run_manifest.obj.create_timeshift <=> modules[TimeshiftId].checked)


\* C17: the selected list of every produced manifest holds exactly the ids
\* of the leaves that are checked at that moment, each once, and never a
\* bare category id, also when the group node itself is checked.
C17_SelectedIsCheckedLeaves ==
  ManifestProduced =>
    LET selected == run_manifest.obj.selected
    IN /\ Ids(selected) = {id \in Leaves : modules[id].checked}
       /\ Ids(selected) \cap Groups = {}
       /\ Cardinality(Ids(selected)) = Len(selected)

\* a manifest produced while a whole group, and so its group node, is
\* checked and another group is mixed
C17_Witness ==
  /\ ManifestProduced
  /\ modules["apps"].checked
  /\ "apps:update_snap" \in Ids(run_manifest.obj.selected)
  /\ modules["sys"].partial
  /\ ~modules["health:disk"].checked


(***************************************************************************)
(* C18.  Reset.                                                            *)
(***************************************************************************)
\* the reset action has run and all its messages have been handled
AfterReset == Quiescent /\ lastOp = "reset"

\* C18 as stated: reset sets every leaf's checked to false and every node's
\* partial to false, and leaves every node's enabled flag as it was before.
C18_ResetKeepsEnabled ==
  AfterReset =>
    /\ \A id \in Leaves : ~modules[id].checked
    /\ \A id \in ModuleIds : ~modules[id].partial
    /\ \A id \in ModuleIds : modules[id].enabled = enabledBefore[id]

\* C18, amended: reset sets every leaf's and every group's checked to false
\* and every node's partial to false, turns dry-run on and the checkpoint
\* setting off, and leaves the enabled flag of every node as it was except
\* that of the checkpoint leaf, which is disabled afterwards.
C18_ResetToDefaults ==
  AfterReset =>
    /\ \A id \in ModuleIds : ~modules[id].checked /\ ~modules[id].partial
    /\ tui_dry_run
    /\ ~create_timeshift
    /\ \A id \in ModuleIds \ {TimeshiftId} : modules[id].enabled = enabledBefore[id]
    /\ ~modules[TimeshiftId].enabled

\* a reset made while dry-run was off: the checkpoint leaf was enabled
\* before and is disabled after
C18_Witness ==
  /\ AfterReset
  /\ enabledBefore[TimeshiftId]
  /\ ~modules[TimeshiftId].enabled
  /\ tui_dry_run


(***************************************************************************)
(* C19, C20.  Select all.                                                  *)
(***************************************************************************)
EnabledLeaves(mods) == {id \in Leaves : mods[id].enabled}

CheckedAmong(mods, S) == {id \in S : mods[id].checked}

\* C19: select all never changes the checked value of a disabled leaf; if
\* some enabled leaf is checked it sets every enabled leaf to false, and if
\* no enabled leaf is checked it sets every enabled leaf to true, also when
\* a disabled leaf happens to be checked.
C19_ToggleAllByEnabledLeaves ==
  [][action_select_all =>
       /\ \A id \in Leaves \ EnabledLeaves(modules) :
            modules'[id].checked = modules[id].checked
       /\ \A id \in EnabledLeaves(modules) :
            modules'[id].checked =
              (CheckedAmong(modules, EnabledLeaves(modules)) = {})]_vars


\* two select-all operations in a row have run and their messages are handled
AfterTwoToggles == Quiescent /\ toggleRun = 2

\* C20 as stated: select all applied twice in a row restores the original
\* checked set of the enabled leaves.
C20_ToggleAllTwiceRestores ==
  AfterTwoToggles =>
    CheckedAmong(modules, EnabledLeaves(modules))
      = toggleOrigin \cap EnabledLeaves(modules)

\* C20, amended: after select all applied twice in a row no disabled leaf
\* has changed, and the enabled leaves are all unchecked if at first no
\* leaf was checked or a disabled leaf was checked, and all checked
\* otherwise; so the original set is restored only if it was uniform.
C20_ToggleAllTwiceResult ==
  AfterTwoToggles =>
    /\ CheckedAmong(modules, Leaves \ EnabledLeaves(modules))
         = toggleOrigin \ EnabledLeaves(modules)
    /\ CheckedAmong(modules, EnabledLeaves(modules)) =
         (IF toggleOrigin = {} \/ toggleOrigin \ EnabledLeaves(modules) # {}
            THEN {}
            ELSE EnabledLeaves(modules))

\* two select-all operations from a mixed selection ended with every
\* enabled leaf checked
C20_Witness ==
  /\ AfterTwoToggles
  /\ toggleOrigin = {"apps:update_flatpak"}
  /\ CheckedAmong(modules, Leaves) = EnabledLeaves(modules)
  /\ "health:gpu" \in EnabledLeaves(modules)


(***************************************************************************)
(* C21.  Checking and unchecking a group.                                  *)
(***************************************************************************)
\* the user acts on the group node for the second time in a row
SecondPressOf(g) == onGroupHeaderPressed(g) /\ lastOp = "header"

JsonBool_python(b) == IF b THEN "True" ELSE "False"

\* json.dump of a boolean
JsonBool(b) == IF b THEN "true" ELSE "false"

\* json.dump(manifest, f): the text of the file, as its sequence of tokens
JsonDump(m) ==
  <<"{">>
  \o (IF m.has_dry_run THEN <<"dry_run", JsonBool(m.dry_run)>> ELSE <<>>)
  \o (IF m.has_create_timeshift
        THEN <<"create_timeshift", JsonBool(m.create_timeshift)>> ELSE <<>>)
  \o (IF m.has_selected THEN <<"selected", "[">> \o m.selected \o <<"]">>
                        ELSE <<>>)
  \o <<"}">>

\* the first position at or after from that holds the token, 0 if none
IndexOf(text, tok, from) ==
  LET hits == {i \in DOMAIN text : i >= from /\ text[i] = tok}
  IN IF hits = {} THEN 0 ELSE CHOOSE i \in hits : \A j \in hits : i <= j

\* json.load(f): the object the text denotes
JsonLoad(text) ==
  LET d == IndexOf(text, "dry_run", 1)
      c == IndexOf(text, "create_timeshift", 1)
      l == IndexOf(text, "selected", 1)
  IN [has_dry_run |-> d # 0,
      dry_run |-> (d # 0 /\ text[d + 1] = "true"),
      has_create_timeshift |-> c # 0,
      create_timeshift |-> (c # 0 /\ text[c + 1] = "true"),
      has_selected |-> l # 0,
      selected |-> (IF l = 0 THEN <<>>
                    ELSE SubSeq(text, l + 2, IndexOf(text, "]", l) - 1))]

\* what the engine holds after loading the file the front-end wrote
EngineLoaded == JsonLoad(JsonDump(run_manifest.obj))

\* C22: for every manifest the front-end produces, writing it as JSON and
\* loading it in the engine yields the same dry_run flag, the same
\* create_timeshift flag and the same set of selected ids.
C22_ManifestRoundTrip ==
  ManifestProduced =>
    /\ GetDryRun(EngineLoaded) = run_manifest.obj.dry_run
    /\ GetCreateTimeshift(EngineLoaded) = run_manifest.obj.create_timeshift
    /\ Ids(GetSelected(EngineLoaded)) = Ids(run_manifest.obj.selected)

\* a manifest with both kinds of flag value and two selected steps was
\* written and loads as the same object
C22_Witness ==
  /\ ManifestProduced
  /\ ~run_manifest.obj.dry_run
  /\ run_manifest.obj.create_timeshift
  /\ Len(run_manifest.obj.selected) >= 2
  /\ EngineLoaded = run_manifest.obj


(***************************************************************************)
(* The monitor: RunView and the process it runs.                           *)
(***************************************************************************)
\* most lines the process writes
MaxLines == 2

\* largest declared step count
MaxCount == 2

\* most seconds the elapsed-time label counts
MaxTicks == 1

\* most presses of the stop button
MaxStops == 1

\* the texts found after "rc=": integers, and one that is not an integer
RcTexts == {"0", "1", "abc"}

\* an END line without an rc field
NoRc == "absent"

\* the lines the process can write: what the line starts with, the module
\* id and the text of the rc field
LinePool ==
  {[starts |-> "::BEGIN module=", id |-> "sys:update_apt", rc |-> NoRc]}
  \cup {[starts |-> "::END module=", id |-> "sys:update_apt", rc |-> r] :
          r \in RcTexts \cup {NoRc}}
  \cup {[starts |-> "Log directory: ", id |-> "/logs/run", rc |-> NoRc],
        [starts |-> "", id |-> "output", rc |-> NoRc]}

\* int(text) succeeds
IsInt(text) == text \in {"0", "1"}

\* int(text)
ParseInt(text) == IF text = "0" THEN 0 ELSE 1

\* the rc a well-formed END line is read as: 0 when the field is missing
RcOf(line) == IF line.rc = NoRc THEN 0 ELSE ParseInt(line.rc)

\* an END line on which int() raises ValueError
RcRaises(line) ==
  line.starts = "::END module=" /\ line.rc # NoRc /\ ~IsInt(line.rc)

\* a progress bar that shows whatever progress it is given
ProgressBarUpdate_unclamped(total, progress) == progress

\* ProgressBar.update(progress=...): the bar clamps progress to 0..total
ProgressBarUpdate(total, progress) ==
  IF progress < 0 THEN 0 ELSE IF progress > total THEN total ELSE progress

\* one write to the log viewer
Entry(style, content) == [style |-> style, content |-> content]

\* the summary onComplete writes
Summary ==
  <<Entry("plain", ""), Entry("plain", "===="), Entry("bold", "Run Summary:"),
    Entry("plain", <<"Total modules", selected_count>>),
    Entry("plain", <<"Completed", completed_modules>>),
    Entry("plain", <<"Failed", failed_modules>>)>>
  \o (IF log_dir # "" THEN <<Entry("plain", <<"Logs saved to", log_dir>>)>>
                      ELSE <<>>)

\* a title that does not depend on success
TitleOf_alwaysComplete(ok) == "Complete"

\* the title onComplete shows
TitleOf(ok) == IF ok THEN "Complete" ELSE "Failed"

\* RunView.onComplete(success), called after log was written to the viewer
onComplete(ok, log) ==
  /\ elapsed_timer' = FALSE
  /\ run_title' = TitleOf(ok)
  /\ current_label' = <<"Completed", completed_modules, failed_modules>>
  /\ btnDisabled' = [b \in Buttons |-> b = "btn-stop"]
  /\ log_viewer' = log \o Summary

\* the process exists and has not exited
Running == process = "Process" /\ returncode = <<>>

\* runMaintenance up to the await of create_subprocess_exec; without the
\* runner script it reports the error and completes as failed
CheckScript ==
  /\ view = "mounted" /\ worker = "start"
  /\ IF scriptExists
       THEN /\ worker' = "spawn"
            /\ UNCHANGED <<elapsed_timer, run_title, current_label,
                           btnDisabled, log_viewer>>
       ELSE /\ worker' = "done"
            /\ onComplete(FALSE,
                 Append(log_viewer, Entry("red", "runner not found")))
  /\ UNCHANGED <<view, scriptExists, selected_count, current_module,
                 completed_modules, failed_modules, process, log_dir,
                 progress_bar, elapsed_time, returncode, pipe, wrote,
                 signals, stopper, stop_presses>>
  /\ UNCHANGED <<engineVars, treeVars, outputVars>>

\* create_subprocess_exec returns the process
Spawned ==
  /\ view = "mounted" /\ worker = "spawn"
  /\ process' = "Process"
  /\ worker' = "read"
  /\ UNCHANGED <<view, scriptExists, selected_count, current_module,
                 completed_modules, failed_modules, log_dir, elapsed_timer,
                 run_title, current_label, progress_bar, btnDisabled,
                 elapsed_time, log_viewer, returncode, pipe, wrote, signals,
                 stopper, stop_presses>>
  /\ UNCHANGED <<engineVars, treeVars, outputVars>>

\* create_subprocess_exec raises: the except clause reports and completes
SpawnRaises ==
  /\ view = "mounted" /\ worker = "spawn"
  /\ worker' = "done"
  /\ onComplete(FALSE, Append(log_viewer, Entry("red", "Error")))
  /\ UNCHANGED <<view, scriptExists, selected_count, current_module,
                 completed_modules, failed_modules, process, log_dir,
                 progress_bar, elapsed_time, returncode, pipe, wrote,
                 signals, stopper, stop_presses>>
  /\ UNCHANGED <<engineVars, treeVars, outputVars>>

\* the process writes a line to its output
ProcWrites(line) ==
  /\ Running
  /\ Len(wrote) < MaxLines
  /\ pipe' = Append(pipe, line)
  /\ wrote' = Append(wrote, line)
  /\ UNCHANGED <<view, scriptExists, selected_count, current_module,
                 completed_modules, failed_modules, process, log_dir,
                 elapsed_timer, run_title, current_label, progress_bar,
                 btnDisabled, elapsed_time, log_viewer, returncode, signals,
                 worker, stopper, stop_presses>>
  /\ UNCHANGED <<engineVars, treeVars, outputVars>>

\* the exit statuses the process can end with: its own, or death by a
\* signal that was sent to it
ExitStatuses ==
  {0, 1} \cup (IF \E i \in DOMAIN signals : signals[i] = "TERM"
                 THEN {-15} ELSE {})
         \cup (IF \E i \in DOMAIN signals : signals[i] = "KILL"
                 THEN {-9} ELSE {})

\* the process exits
ProcExits(rc) ==
  /\ Running
  /\ rc \in ExitStatuses
  /\ returncode' = <<rc>>
  /\ UNCHANGED <<view, scriptExists, selected_count, current_module,
                 completed_modules, failed_modules, process, log_dir,
                 elapsed_timer, run_title, current_label, progress_bar,
                 btnDisabled, elapsed_time, log_viewer, pipe, wrote, signals,
                 worker, stopper, stop_presses>>
  /\ UNCHANGED <<engineVars, treeVars, outputVars>>

\* readline returned a line
Reading == view = "mounted" /\ worker = "read" /\ pipe # <<>>

\* the loop body for a line that starts with "::BEGIN module="
ReadBegin ==
  /\ Reading
  /\ Head(pipe).starts = "::BEGIN module="
  /\ pipe' = Tail(pipe)
  /\ current_module' = Head(pipe).id
  /\ current_label' =
       <<"Module", completed_modules + 1, selected_count, Head(pipe).id>>
  /\ log_viewer' = Append(log_viewer, Entry("dim", Head(pipe)))
  /\ UNCHANGED <<view, scriptExists, selected_count, completed_modules,
                 failed_modules, process, log_dir, elapsed_timer, run_title,
                 progress_bar, btnDisabled, elapsed_time, returncode, wrote,
                 signals, worker, stopper, stop_presses>>
  /\ UNCHANGED <<engineVars, treeVars, outputVars>>

\* the loop body for a line that starts with "::END module=" and whose rc
\* field, if any, is an integer
ReadEnd ==
  /\ Reading
  /\ Head(pipe).starts = "::END module="
  /\ ~RcRaises(Head(pipe))
  /\ pipe' = Tail(pipe)
  /\ completed_modules' = completed_modules + 1
  /\ failed_modules' =
       (IF RcOf(Head(pipe)) # 0 THEN failed_modules + 1 ELSE failed_modules)
  /\ log_viewer' =
       Append(log_viewer,
              Entry(IF RcOf(Head(pipe)) # 0 THEN "red" ELSE "green",
                    Head(pipe)))
  /\ progress_bar' = ProgressBarUpdate(selected_count, completed_modules + 1)
  /\ UNCHANGED <<view, scriptExists, selected_count, current_module, process,
                 log_dir, elapsed_timer, run_title, current_label,
                 btnDisabled, elapsed_time, returncode, wrote, signals,
                 worker, stopper, stop_presses>>
  /\ UNCHANGED <<engineVars, treeVars, outputVars>>

\* the loop body for an END line whose rc field is not an integer: int()
\* raises, the except clause reports the error and completes as failed
ReadEndRaises ==
  /\ Reading
  /\ RcRaises(Head(pipe))
  /\ pipe' = Tail(pipe)
  /\ worker' = "done"
  /\ onComplete(FALSE, Append(log_viewer, Entry("red", "Error")))
  /\ UNCHANGED <<view, scriptExists, selected_count, current_module,
                 completed_modules, failed_modules, process, log_dir,
                 progress_bar, elapsed_time, returncode, wrote, signals,
                 stopper, stop_presses>>
  /\ UNCHANGED <<engineVars, treeVars, outputVars>>

\* the loop body for a line that starts with "Log directory: "
ReadLogDir ==
  /\ Reading
  /\ Head(pipe).starts = "Log directory: "
  /\ pipe' = Tail(pipe)
  /\ log_dir' = Head(pipe).id
  /\ log_viewer' = Append(log_viewer, Entry("blue", Head(pipe)))
  /\ UNCHANGED <<view, scriptExists, selected_count, current_module,
                 completed_modules, failed_modules, process, elapsed_timer,
                 run_title, current_label, progress_bar, btnDisabled,
                 elapsed_time, returncode, wrote, signals, worker, stopper,
                 stop_presses>>
  /\ UNCHANGED <<engineVars, treeVars, outputVars>>

\* the loop body for any other line
ReadOther ==
  /\ Reading
  /\ Head(pipe).starts = ""
  /\ pipe' = Tail(pipe)
  /\ log_viewer' = Append(log_viewer, Entry("plain", Head(pipe)))
  /\ UNCHANGED <<view, scriptExists, selected_count, current_module,
                 completed_modules, failed_modules, process, log_dir,
                 elapsed_timer, run_title, current_label, progress_bar,
                 btnDisabled, elapsed_time, returncode, wrote, signals,
                 worker, stopper, stop_presses>>
  /\ UNCHANGED <<engineVars, treeVars, outputVars>>

\* readline returned b'': the process has exited and its output is drained
ReadEof ==
  /\ view = "mounted" /\ worker = "read"
  /\ pipe = <<>> /\ returncode # <<>>
  /\ worker' = "wait"
  /\ UNCHANGED <<view, scriptExists, selected_count, current_module,
                 completed_modules, failed_modules, process, log_dir,
                 elapsed_timer, run_title, current_label, progress_bar,
                 btnDisabled, elapsed_time, log_viewer, returncode, pipe,
                 wrote, signals, stopper, stop_presses>>
  /\ UNCHANGED <<engineVars, treeVars, outputVars>>

\* process.wait() returned: success = (returncode == 0), onComplete
WaitReturns ==
  /\ view = "mounted" /\ worker = "wait"
  /\ returncode # <<>>
  /\ worker' = "done"
  /\ onComplete(returncode = <<0>>, log_viewer)
  /\ UNCHANGED <<view, scriptExists, selected_count, current_module,
                 completed_modules, failed_modules, process, log_dir,
                 progress_bar, elapsed_time, returncode, pipe, wrote,
                 signals, stopper, stop_presses>>
  /\ UNCHANGED <<engineVars, treeVars, outputVars>>

\* a tick that arrives whether or not the timer was stopped
updateElapsedTime_afterStop ==
  /\ view = "mounted"
  /\ elapsed_time < MaxTicks
  /\ elapsed_time' = elapsed_time + 1
  /\ UNCHANGED <<view, scriptExists, selected_count, current_module,
                 completed_modules, failed_modules, process, log_dir,
                 elapsed_timer, run_title, current_label, progress_bar,
                 btnDisabled, log_viewer, returncode, pipe, wrote, signals,
                 worker, stopper, stop_presses>>
  /\ UNCHANGED <<engineVars, treeVars, outputVars>>

\* a tick that writes the time to the label of the current step
updateElapsedTime_wrongLabel ==
  /\ view = "mounted"
  /\ elapsed_timer
  /\ elapsed_time < MaxTicks
  /\ elapsed_time' = elapsed_time + 1
  /\ current_label' = <<"Elapsed", elapsed_time + 1>>
  /\ UNCHANGED <<view, scriptExists, selected_count, current_module,
                 completed_modules, failed_modules, process, log_dir,
                 elapsed_timer, run_title, progress_bar,
                 btnDisabled, log_viewer, returncode, pipe, wrote, signals,
                 worker, stopper, stop_presses>>
  /\ UNCHANGED <<engineVars, treeVars, outputVars>>

\* RunView.updateElapsedTime, called by the interval timer
updateElapsedTime ==
  /\ view = "mounted"
  /\ elapsed_timer
  /\ elapsed_time < MaxTicks
  /\ elapsed_time' = elapsed_time + 1
  /\ UNCHANGED <<view, scriptExists, selected_count, current_module,
                 completed_modules, failed_modules, process, log_dir,
                 elapsed_timer, run_title, current_label, progress_bar,
                 btnDisabled, log_viewer, returncode, pipe, wrote, signals,
                 worker, stopper, stop_presses>>
  /\ UNCHANGED <<engineVars, treeVars, outputVars>>

\* the handlers of the screen's buttons run one after the other
ButtonTurn(b) == view = "mounted" /\ stopper = "idle" /\ ~btnDisabled[b]

\* a kill that is sent without looking at returncode
KillNeeded_always == TRUE

\* onStop after the sleep: kill only if the process has not exited
KillNeeded == returncode = <<>>

\* RunView.onStop up to the await of the sleep: terminate a process that
\* exists and has not exited, otherwise do nothing
onStop ==
  /\ ButtonTurn("btn-stop")
  /\ stop_presses < MaxStops
  /\ stop_presses' = stop_presses + 1
  /\ IF Running
       THEN /\ signals' = Append(signals, "TERM")
            /\ stopper' = "sleep"
       ELSE UNCHANGED <<signals, stopper>>
  /\ UNCHANGED <<view, scriptExists, selected_count, current_module,
                 completed_modules, failed_modules, process, log_dir,
                 elapsed_timer, run_title, current_label, progress_bar,
                 btnDisabled, elapsed_time, log_viewer, returncode, pipe,
                 wrote, worker>>
  /\ UNCHANGED <<engineVars, treeVars, outputVars>>

\* RunView.onStop after the grace period of 0.5 s
onStopWakes ==
  /\ view = "mounted" /\ stopper = "sleep"
  /\ stopper' = "idle"
  /\ signals' = (IF KillNeeded THEN Append(signals, "KILL") ELSE signals)
  /\ log_viewer' =
       Append(log_viewer, Entry("yellow", "Run cancelled by user"))
  /\ UNCHANGED <<view, scriptExists, selected_count, current_module,
                 completed_modules, failed_modules, process, log_dir,
                 elapsed_timer, run_title, current_label, progress_bar,
                 btnDisabled, elapsed_time, returncode, pipe, wrote, worker,
                 stop_presses>>
  /\ UNCHANGED <<engineVars, treeVars, outputVars>>

\* RunView.onViewLogs
onViewLogs ==
  /\ ButtonTurn("btn-view-logs")
  /\ log_dir # ""
  /\ log_viewer # <<>> /\ log_viewer[Len(log_viewer)].style # "files"
  /\ log_viewer' = Append(log_viewer, Entry("files", log_dir))
  /\ UNCHANGED <<view, scriptExists, selected_count, current_module,
                 completed_modules, failed_modules, process, log_dir,
                 elapsed_timer, run_title, current_label, progress_bar,
                 btnDisabled, elapsed_time, returncode, pipe, wrote, signals,
                 worker, stopper, stop_presses>>
  /\ UNCHANGED <<engineVars, treeVars, outputVars>>

\* RunView.onBack, seen from the RunView: the screen is popped
RunViewBack ==
  /\ ButtonTurn("btn-back")
  /\ view' = "popped"
  /\ UNCHANGED <<scriptExists, selected_count, current_module,
                 completed_modules, failed_modules, process, log_dir,
                 elapsed_timer, run_title, current_label, progress_bar,
                 btnDisabled, elapsed_time, log_viewer, returncode, pipe,
                 wrote, signals, worker, stopper, stop_presses>>
  /\ UNCHANGED <<engineVars, treeVars, outputVars>>

\* a RunView right after on_mount: the timer runs, runMaintenance is about
\* to start; the declared count is what actionRun computed (at least 1)
MonitorInit ==
  /\ EngineIdle
  /\ NoChapterOutput
  /\ TreeConstructed("minty")
  /\ view = "mounted"
  /\ scriptExists \in BOOLEAN
  /\ elapsed_timer = TRUE
  /\ worker = "start"
  /\ \E n \in 1..MaxCount : RunViewConstructed(n)

MonitorNext ==
  \/ CheckScript
  \/ Spawned
  \/ SpawnRaises
  \/ \E line \in LinePool : ProcWrites(line)
  \/ \E rc \in {0, 1, -15, -9} : ProcExits(rc)
  \/ ReadBegin
  \/ ReadEnd
  \/ ReadEndRaises
  \/ ReadLogDir
  \/ ReadOther
  \/ ReadEof
  \/ WaitReturns
  \/ updateElapsedTime
  \/ onStop
  \/ onStopWakes
  \/ onViewLogs
  \/ RunViewBack

MonitorSpec == MonitorInit /\ [][MonitorNext]_vars

MonitorTypeOK ==
  /\ view \in {"mounted", "popped"}
  /\ worker \in {"start", "spawn", "read", "wait", "done"}
  /\ stopper \in {"idle", "sleep"}
  /\ completed_modules \in 0..MaxLines
  /\ failed_modules \in 0..MaxLines
  /\ progress_bar \in 0..selected_count
  /\ returncode \in {<<>>, <<0>>, <<1>>, <<-15>>, <<-9>>}


(***************************************************************************)
(* C23.  The counters of the monitor.                                      *)
(***************************************************************************)
\* the lines readline has returned so far
Seen == SubSeq(wrote, 1, Len(wrote) - Len(pipe))

\* the END-marker lines among them
EndsSeen == {i \in DOMAIN Seen : Seen[i].starts = "::END module="}

\* those whose rc field is present and is not 0
FailedEndsSeen == {i \in EndsSeen : Seen[i].rc \notin {NoRc, "0"}}

\* C23: after the monitor has processed any sequence of stream lines, its
\* completed counter equals the number of END-marker lines seen and its
\* failed counter the number of those with a non-zero rc (so failed <=
\* completed); BEGIN, log-directory and other lines change neither counter.
C23_CountersMatchEndLines ==
  /\ completed_modules = Cardinality(EndsSeen)
  /\ failed_modules = Cardinality(FailedEndsSeen)
  /\ failed_modules <= completed_modules


(***************************************************************************)
(* C24.  The progress bar.                                                 *)
(***************************************************************************)
\* an END line is read after the declared number of END lines was counted
ReadsExtraEnd == ReadEnd /\ completed_modules >= selected_count

ExitedAndFinal == returncode # <<>> /\ worker = "done"

\* C25: when the subordinate process has exited, the monitor's final status
\* is Complete iff the exit status is 0 and Failed otherwise, whatever the
\* failed counter says.
C25_FinalStatusIsExitStatus ==
  ExitedAndFinal =>
    /\ run_title \in {"Complete", "Failed"}
    /\ (run_title = "Complete") <=> (returncode = <<0>>)


(***************************************************************************)
(* C26.  The status after a stop.                                          *)
(***************************************************************************)
\* no line of the stream made the read loop raise
WellFormedStream == \A i \in DOMAIN wrote : ~RcRaises(wrote[i])

\* the user's stop signalled the process, the process died of the signal
\* and the monitor, having read a well-formed stream to its end, has
\* reached its final status
StoppedByUser ==
  /\ signals # <<>>
  /\ WellFormedStream
  /\ returncode \in {<<-15>>, <<-9>>}
  /\ worker = "done" /\ stopper = "idle"

\* C26: after a user-initiated stop that terminates the run the displayed
\* run status is "Cancelled": not Complete, and not the Failed of an
\* ordinary failed run.
C26_StoppedRunShowsCancelled ==
  StoppedByUser => run_title = "Cancelled"


(***************************************************************************)
(* C27.  Terminate, grace period, kill.                                    *)
(***************************************************************************)
\* a signal is sent in this step
Signals == signals' # signals

\* C27: on a stop while the process is running the monitor first sends
\* terminate, waits the grace period, and sends kill only if the process
\* has still not exited; kill is never sent before terminate, and neither
\* signal is sent to a process that has already exited.
C27_TerminateThenKill ==
  /\ [](\A i \in DOMAIN signals :
          signals[i] = "KILL" => i > 1 /\ signals[i - 1] = "TERM")
  /\ [][Signals => Running]_vars
  /\ [][(onStop /\ Running) =>
          signals' = Append(signals, "TERM") /\ stopper' = "sleep"]_vars
  /\ [][Signals /\ signals' = Append(signals, "KILL") =>
          onStopWakes /\ stopper = "sleep"]_vars
  /\ [][(onStopWakes /\ ~Running) => signals' = signals]_vars

\* the process ignored terminate, was killed after the grace period and
\* died of the kill
C27_Witness ==
  /\ signals = <<"TERM", "KILL">>
  /\ returncode = <<-9>>
  /\ stopper = "idle"


(***************************************************************************)
(* C28.  Launch failures and abnormal exits.                               *)
(***************************************************************************)
\* the steps of runMaintenance
WorkerStep ==
  \/ CheckScript
  \/ Spawned
  \/ SpawnRaises
  \/ ReadBegin
  \/ ReadEnd
  \/ ReadEndRaises
  \/ ReadLogDir
  \/ ReadOther
  \/ ReadEof
  \/ WaitReturns

\* the monitor has reached its final status
Final == worker = "done"

\* the process was never launched: the runner script is missing or
\* create_subprocess_exec raised
NotLaunched == Final /\ process = "None"

\* the process wrote no BEGIN or END marker
NoMarkerWritten ==
  \A i \in DOMAIN wrote :
    wrote[i].starts \notin {"::BEGIN module=", "::END module="}

\* the process exited with a non-zero status and wrote no marker
AbnormalExitNoMarker ==
  returncode \notin {<<>>, <<0>>} /\ NoMarkerWritten

\* an ordinary step failure: a well-formed stream with a failed step, the
\* process exited with status 0
StepFailureOutcome ==
  Final /\ returncode = <<0>> /\ WellFormedStream /\ failed_modules > 0

\* what the monitor shows in its failure state
ShowsFailed ==
  /\ run_title = "Failed"
  /\ ~elapsed_timer
  /\ btnDisabled["btn-stop"]

\* the launch is bound to fail, or the process has exited abnormally
\* without any marker, and the monitor still shows Running
FailurePending ==
  /\ view = "mounted" /\ ~Final
  /\ ~scriptExists \/ AbnormalExitNoMarker

\* what runMaintenance still has to do once the process has exited
Remaining ==
  Len(pipe) + (IF worker = "read" THEN 2 ELSE IF worker = "wait" THEN 1 ELSE 0)

\* C28: if the process cannot be launched, or exits abnormally without any
\* marker, the monitor ends in the failure state, which differs from a run
\* showing zero progress (still Running...) and from the outcome of an
\* ordinary step failure (Complete); it never remains in Running: while
\* the failure is pending runMaintenance can always take its next step, and
\* each step after the exit brings it nearer to its end.
C28_TransportFailureShown ==
  /\ [](NotLaunched => ShowsFailed)
  /\ []((Final /\ AbnormalExitNoMarker) => ShowsFailed)
  /\ [](StepFailureOutcome => run_title = "Complete")
  /\ [](FailurePending => run_title = "Running..." /\ ENABLED WorkerStep)
  /\ [][(WorkerStep /\ returncode # <<>>) => Remaining' < Remaining]_vars

\* the process wrote an ordinary line, exited with status 1 and the
\* monitor shows Failed with nothing completed
C28_Witness ==
  /\ Final /\ AbnormalExitNoMarker
  /\ wrote # <<>>
  /\ ShowsFailed
  /\ completed_modules = 0


(***************************************************************************)
(* C29.  A step whose implementation is absent.                            *)
(***************************************************************************)
\* the step that runs found no module file: runChapter recorded its status
\* with the note "Not implemented"
AbsentStep == pc \in {"end", "audit"} /\ notes = NoteNotImplemented

\* the id of the step that runs
CurrentId == ModuleIdOf[CurrentChapter]

\* C29: a step whose implementation is absent is treated as successful:
\* the engine emits BEGIN and then END with rc=0 for it, records status
\* Success with the note "Not implemented", does not count it as needing
\* attention, and goes on with the next entry of the execution list.
C29_AbsentStepIsSuccess ==
  /\ [](AbsentStep =>
          /\ success
          /\ chapter_status[CurrentChapter] = StatusSuccess
          /\ CurrentChapter \notin {n \in Chapters :
                                     chapter_status[n] = StatusAttention}
          /\ (pc = "end" => stream[Len(stream)] = BeginEvent(CurrentId))
          /\ (pc = "audit" =>
                /\ stream[Len(stream) - 1] = BeginEvent(CurrentId)
                /\ stream[Len(stream)] = EndEvent(CurrentId, 0)))
  /\ [][(AbsentStep /\ pc = "end") =>
          /\ pc' = "audit"
          /\ stream' = Append(stream, EndEvent(CurrentId, 0))]_vars
  /\ [][(AbsentStep /\ pc = "audit") =>
          /\ pc' = "loop"
          /\ idx' = idx + 1
          /\ exitCode' = exitCode]_vars

\* an absent step of a manifest run has got its END with rc=0 and another
\* step is still to come
C29_Witness ==
  /\ AbsentStep /\ pc = "audit"
  /\ ManifestSupplied
  /\ stream[Len(stream)] = EndEvent(CurrentId, 0)
  /\ idx < Len(chapters_to_run)


(***************************************************************************)
(* C30.  Steps that ended with rc=1 and the attention count.               *)
(***************************************************************************)
\* the ids of the steps whose END event carries rc=1
EndedWithOne == {stream[i].id : i \in {j \in DOMAIN stream :
                                        stream[j].kind = "END" /\ stream[j].rc = 1}}

\* the ids of the chapters recorded with status "Needs Attention"
NeedAttention == {ModuleIdOf[n] : n \in {c \in Chapters :
                                          chapter_status[c] = StatusAttention}}

\* the execution list names every chapter at most once
EachChapterOnce ==
  \A i, j \in DOMAIN chapters_to_run :
    chapters_to_run[i] = chapters_to_run[j] => i = j

\* C30: at the end of a run every executed step whose END event carries
\* rc=1 is recorded with status "Needs Attention": the attention count that
\* selects the completion notification equals the number of distinct steps
\* that ended with rc=1, and the 'all successful' message is sent only if
\* no step ended with rc=1.  (Stated for runs that execute no chapter
\* twice.)
C30_AttentionCountIsFailedSteps ==
  (pc = "done" /\ EachChapterOnce) =>
    /\ EndedWithOne \subseteq NeedAttention
    /\ IssueCount(chapter_status) = Cardinality(EndedWithOne)
    /\ (notification = "all_successful" => EndedWithOne = {})


(***************************************************************************)
(* C31.  The leaves of the selection tree and the catalogue.               *)
(***************************************************************************)
\* the manifest the engine holds after loading the file of the front-end
LoadedManifest == [loaded |-> TRUE, obj |-> EngineLoaded]

\* C31: every leaf id of the selection tree resolves to exactly one
\* catalogue entry, catalogue step ids are unique, and so every id of a
\* manifest a front-end produces resolves to a known step and no selected
\* step is dropped from the engine's execution list.
C31_LeafIdsResolve ==
  /\ \A id \in Leaves :
       /\ id \in DOMAIN createModuleIdMap
       /\ Cardinality({n \in Chapters : ModuleIdOf[n] = id}) = 1
  /\ \A m, n \in Chapters : ModuleIdOf[m] = ModuleIdOf[n] => m = n
  /\ ManifestProduced =>
       LET sel == GetSelected(EngineLoaded)
           run == ChaptersToRun(LoadedManifest, sel)
       IN /\ \A i \in DOMAIN sel :
               /\ sel[i] \in DOMAIN createModuleIdMap
               /\ ModuleIdOf[createModuleIdMap[sel[i]]] = sel[i]
          /\ Len(ResolveSelected(sel)) = Len(sel)
          /\ Ids(sel) \subseteq {ModuleIdOf[run[i]] : i \in DOMAIN run}

\* a manifest naming the checkpoint step and a step of another group was
\* produced and both resolve
C31_Witness ==
  /\ ManifestProduced
  /\ {TimeshiftId, "apps:update_flatpak"} \subseteq Ids(GetSelected(EngineLoaded))
  /\ {1, 5} \subseteq Ids(ChaptersToRun(LoadedManifest, GetSelected(EngineLoaded)))


(***************************************************************************)
(* C32.  The buttons and the ticker at the terminal state.                 *)
(***************************************************************************)
\* runMaintenance has called onComplete
MonitorTerminal == worker = "done"

\* C32: 'view logs' and 'back' are enabled exactly when the run has reached
\* its terminal state and 'stop' exactly when it has not; their handlers
\* run only then; and once the terminal state is reached the ticker no
\* longer changes the displayed elapsed time.
C32_ButtonsFollowTerminalState ==
  /\ [](/\ btnDisabled["btn-view-logs"] = ~MonitorTerminal
        /\ btnDisabled["btn-back"] = ~MonitorTerminal
        /\ btnDisabled["btn-stop"] = MonitorTerminal
        /\ (MonitorTerminal => ~elapsed_timer))
  /\ [][onStop => ~MonitorTerminal]_vars
  /\ [][(onViewLogs \/ RunViewBack) => MonitorTerminal]_vars
  /\ [][MonitorTerminal => elapsed_time' = elapsed_time]_vars

\* a run completed before the label had counted all the seconds it can
\* show, and the log files were then listed
C32_Witness ==
  /\ MonitorTerminal
  /\ run_title = "Complete"
  /\ elapsed_time < MaxTicks
  /\ log_viewer[Len(log_viewer)].style = "files"


(***************************************************************************)
(* C33.  Output after a stop request.                                      *)
(***************************************************************************)
\* the stop button was pressed while the process ran
StopRequested == signals # <<>>

\* the markup the read loop gives the lines it writes to the log viewer
LineStyles == {"dim", "green", "red", "blue", "plain"}

\* the read loop takes the next line off the stream
TakesLine == pipe # <<>> /\ pipe' = Tail(pipe)

\* C33: after a stop request the monitor keeps reading the output until
\* end of stream: every line the process wrote before it exited, also one
\* written after the terminate signal, is processed and displayed before
\* the monitor reaches its terminal state.
C33_StopDrainsOutput ==
  /\ []((StopRequested /\ MonitorTerminal) =>
          (returncode # <<>> /\ pipe = <<>>))
  /\ [][(StopRequested /\ TakesLine) =>
          \E style \in LineStyles :
            log_viewer' = Append(log_viewer, Entry(style, Head(pipe)))]_vars


(***************************************************************************)
(* C34.  The two activities of the monitor.                                *)
(***************************************************************************)
\* what the line-reading loop displays and counts
LoopDisplay ==
  <<current_label, completed_modules, failed_modules, progress_bar, log_dir>>

\* C34: under every interleaving of the two activities the once-per-second
\* tick changes only the elapsed-time display, never the current-step
\* label, the completed/failed counters, the progress indicator or the
\* captured log directory, and the line-reading loop never changes the
\* elapsed-time display.
C34_TickAndLoopDisjoint ==
  /\ [][updateElapsedTime =>
          (elapsed_time' # elapsed_time /\ UNCHANGED LoopDisplay)]_vars
  /\ [][elapsed_time' # elapsed_time => UNCHANGED LoopDisplay]_vars
  /\ [][elapsed_time' # elapsed_time => ~WorkerStep]_vars

\* a tick came while the loop was reading, after it had counted an END line
\* and captured the log directory
C34_Witness ==
  /\ worker = "read"
  /\ elapsed_time >= 1
  /\ completed_modules >= 1
  /\ log_dir # ""
  /\ elapsed_timer


(***************************************************************************)
(* C35.  The run action on an empty selection.                             *)
(***************************************************************************)
\* no leaf is checked and the checkpoint setting is off
NothingToRun ==
  /\ \A id \in Leaves : ~modules[id].checked
  /\ ~create_timeshift

\* the selection state of the front-end
SelectionState ==
  <<modules, tui_dry_run, create_timeshift, recommended_daily, cbValue,
    cbDisabled>>

\* C35: the interactive front-end refuses to start a run when no leaf is
\* checked and create_timeshift is false: the run action then writes no
\* manifest, launches no engine and leaves the selection state unchanged.
C35_EmptySelectionRefused ==
  /\ [][(actionRun /\ NothingToRun) =>
          /\ run_manifest' = run_manifest
          /\ ~run_manifest'.written
          /\ screen' = "select"
          /\ notice' = "No modules selected"
          /\ UNCHANGED SelectionState]_vars
  /\ [](ManifestProduced =>
          (run_manifest.obj.selected # <<>> \/ run_manifest.obj.create_timeshift))

\* the run action was refused, in the front-end that would have exited
C35_Witness ==
  /\ lastOp = "run"
  /\ notice = "No modules selected"
  /\ NothingToRun
  /\ screen = "select"
  /\ frontend = "menu"


(***************************************************************************)
(* C36.  The step count declared to the monitor and the engine's ENDs.     *)
(***************************************************************************)
\* a count that forgets the checkpoint step
SelectedCountOf_selectedOnly(m) == Len(m.selected)

\* actionRun: selected_count, the total handed to the RunView
SelectedCountOf(m) == Len(m.selected) + (IF m.create_timeshift THEN 1 ELSE 0)

\* a manifest as actionRun writes it: the three keys, checked leaves each
\* once, and not the refused empty selection
FrontEndManifest(m) ==
  /\ m.has_dry_run /\ m.has_create_timeshift /\ m.has_selected
  /\ Ids(m.selected) \subseteq Leaves
  /\ Cardinality(Ids(m.selected)) = Len(m.selected)
  /\ (m.selected # <<>> \/ m.create_timeshift)

\* C36: for every manifest the front-end produces, the step count it
\* declares to the monitor (len(selected), plus 1 when create_timeshift is
\* true) is the length of the engine's execution list and, when no fatal
\* fault occurs, the number of END events the engine emits, so that at
\* normal completion the completed counter equals the declared total.
C36_DeclaredCountIsEndCount ==
  (ManifestSupplied /\ FrontEndManifest(manifestFile)) =>
    /\ (Resolved => Len(chapters_to_run) = SelectedCountOf(manifestFile))
    /\ NumEnds <= SelectedCountOf(manifestFile)
    /\ (pc = "done" => NumEnds = SelectedCountOf(manifestFile))
    /\ pc # "aborted"

\* a run of a front-end manifest that names the checkpoint step twice, as
\* the leaf and as the setting, ended with three END events
C36_Witness ==
  /\ pc = "done"
  /\ ManifestSupplied /\ FrontEndManifest(manifestFile)
  /\ manifestFile.create_timeshift
  /\ manifestFile.selected = <<TimeshiftId, "apps:update_flatpak">>
  /\ NumEnds = 3


(***************************************************************************)
(* C37.  Dry run and checkpoint in a produced manifest.                    *)
(***************************************************************************)
\* C37: no manifest produced by either front-end has dry_run = true
\* together with create_timeshift = true, whatever sequence of dry-run,
\* checkpoint-setting, macro and reset operations preceded the run action.
C37_NoDryRunWithCheckpoint ==
  ManifestProduced =>
    ~(run_manifest.obj.dry_run /\ run_manifest.obj.create_timeshift)


(***************************************************************************)
(* C38.  The terminal state and the exit of the process.                   *)
(***************************************************************************)
\* what onComplete leaves: the stop button disabled, the timer stopped and
\* the final title shown
DeclaredFinished ==
  /\ btnDisabled["btn-stop"]
  /\ ~elapsed_timer
  /\ run_title \in {"Complete", "Failed"}

\* C38: the monitor reaches its terminal state (stop button disabled, timer
\* frozen, summary written) only after the subordinate process has exited:
\* no input line, including an END line whose rc field is not an integer,
\* makes the monitor declare the run finished while the process is still
\* running.
C38_TerminalOnlyAfterExit ==
  DeclaredFinished => ~Running


(***************************************************************************)
(* C39.  A stop request is not lost.                                       *)
(***************************************************************************)
\* the process has not exited: it runs or does not exist yet
NotExited == returncode = <<>>

\* C39: a stop request issued at any moment while the stop button is
\* enabled leads to the subordinate process being signalled: also a stop
\* pressed after the monitor is mounted but before the process object
\* exists is not silently lost.  onStop is the only place that signals and
\* it schedules nothing, so a press is lost unless its handler signals.
C39_StopNotLost ==
  [][(onStop /\ NotExited) =>
       (Len(signals') > Len(signals) /\ stopper' = "sleep")]_vars


(***************************************************************************)
(* runChapter line by line: where the lines of a step go.                  *)
(*                                                                         *)
(* The engine is started with stderr joined to stdout, so fd_out is the    *)
(* one stream both descriptors lead to.  The original sys.stdout buffers   *)
(* (old_buffer) and is emptied by flush() or whenever the interpreter      *)
(* decides to; the original sys.stderr writes through.  In tee mode both   *)
(* names are bound to tee_proc.stdin, a buffered pipe end, and the tee     *)
(* child copies what it reads to the descriptor the engine was started     *)
(* with.  Commands of a step run with captured output, which the step      *)
(* prints itself, so nothing but the interpreter and tee writes to fd_out. *)
(***************************************************************************)
\* how many chapters run() hands to runChapter
MaxChapterRuns == 2

\* how many lines one step writes at most
MaxStepLines == 2

\* a line of output: the "::BEGIN" or "::END" marker of chapter k, the n-th
\* line written while its step function runs ("step"), or what runChapter
\* itself reports through reporter.say ("not implemented", "error")
Line(k, kind, n) == [chapter |-> k, kind |-> kind, n |-> n]

\* print(...) followed by sys.stdout.flush(), for what sys.stdout names
PrintFlushed(line) ==
  IF sys_stdout = "old_stdout"
  THEN /\ fd_out' = fd_out \o old_buffer \o <<line>>
       /\ old_buffer' = <<>>
       /\ UNCHANGED <<tee_buffer, tee_pipe>>
  ELSE /\ tee_pipe' = tee_pipe \o tee_buffer \o <<line>>
       /\ tee_buffer' = <<>>
       /\ UNCHANGED <<old_buffer, fd_out>>

\* print(...) without a flush
Printed(line) ==
  IF sys_stdout = "old_stdout"
  THEN /\ old_buffer' = Append(old_buffer, line)
       /\ UNCHANGED <<tee_buffer, tee_pipe, fd_out>>
  ELSE /\ tee_buffer' = Append(tee_buffer, line)
       /\ UNCHANGED <<old_buffer, tee_pipe, fd_out>>

\* print("::BEGIN ..."); sys.stdout.flush()
PrintBegin ==
  /\ chapter_pc = "begin"
  /\ PrintFlushed(Line(chapter_no, "BEGIN", 0))
  /\ chapter_pc' = "try"
  /\ UNCHANGED <<chapter_no, tee_mode, step_lines, raised, sys_stdout,
                 sys_stderr, tee_proc>>
  /\ UNCHANGED <<engineVars, treeVars, monitorVars>>

\* the module file is absent: the chapter is reported as not implemented
NotYetImplemented ==
  /\ chapter_pc = "try"
  /\ Printed(Line(chapter_no, "not implemented", 0))
  /\ chapter_pc' = "end"
  /\ UNCHANGED <<chapter_no, tee_mode, step_lines, raised, sys_stdout,
                 sys_stderr, tee_proc>>
  /\ UNCHANGED <<engineVars, treeVars, monitorVars>>

\* import_module or getattr raises
ImportRaises ==
  /\ chapter_pc = "try"
  /\ chapter_pc' = "except"
  /\ raised' = TRUE
  /\ UNCHANGED <<chapter_no, tee_mode, step_lines, sys_stdout, sys_stderr,
                 old_buffer, tee_proc, tee_buffer, tee_pipe, fd_out>>
  /\ UNCHANGED <<engineVars, treeVars, monitorVars>>

\* the step function is about to be called: in tee mode tee is started and
\* sys.stdout and sys.stderr are bound to its stdin
CallFunction ==
  /\ chapter_pc = "try"
  /\ chapter_pc' = "step"
  /\ IF tee_mode
     THEN /\ tee_proc' = "running"
          /\ sys_stdout' = "tee_stdin"
          /\ sys_stderr' = "tee_stdin"
     ELSE UNCHANGED <<tee_proc, sys_stdout, sys_stderr>>
  /\ UNCHANGED <<chapter_no, tee_mode, step_lines, raised, old_buffer,
                 tee_buffer, tee_pipe, fd_out>>
  /\ UNCHANGED <<engineVars, treeVars, monitorVars>>

\* the step prints a line (reporter.say)
StepPrints ==
  /\ chapter_pc = "step"
  /\ step_lines < MaxStepLines
  /\ step_lines' = step_lines + 1
  /\ Printed(Line(chapter_no, "step", step_lines + 1))
  /\ UNCHANGED <<chapter_pc, chapter_no, tee_mode, raised, sys_stdout,
                 sys_stderr, tee_proc>>
  /\ UNCHANGED <<engineVars, treeVars, monitorVars>>

\* the step writes a line to sys.stderr, which writes through unless it
\* names tee_proc.stdin
StepWritesStderr ==
  /\ chapter_pc = "step"
  /\ step_lines < MaxStepLines
  /\ step_lines' = step_lines + 1
  /\ IF sys_stderr = "old_stderr"
     THEN /\ fd_out' = Append(fd_out, Line(chapter_no, "step", step_lines + 1))
          /\ UNCHANGED <<old_buffer, tee_buffer, tee_pipe>>
     ELSE /\ tee_buffer' =
               Append(tee_buffer, Line(chapter_no, "step", step_lines + 1))
          /\ UNCHANGED <<old_buffer, tee_pipe, fd_out>>
  /\ UNCHANGED <<chapter_pc, chapter_no, tee_mode, raised, sys_stdout,
                 sys_stderr, tee_proc>>
  /\ UNCHANGED <<engineVars, treeVars, monitorVars>>

\* the interpreter empties the buffer of the original sys.stdout
FlushOld ==
  /\ chapter_pc \in {"step", "except", "end"}
  /\ old_buffer # <<>>
  /\ fd_out' = fd_out \o old_buffer
  /\ old_buffer' = <<>>
  /\ UNCHANGED <<chapter_pc, chapter_no, tee_mode, step_lines, raised,
                 sys_stdout, sys_stderr, tee_proc, tee_buffer, tee_pipe>>
  /\ UNCHANGED <<engineVars, treeVars, monitorVars>>

\* the interpreter empties the buffer of tee_proc.stdin into the pipe
FlushTee ==
  /\ chapter_pc = "step"
  /\ tee_buffer # <<>>
  /\ tee_pipe' = tee_pipe \o tee_buffer
  /\ tee_buffer' = <<>>
  /\ UNCHANGED <<chapter_pc, chapter_no, tee_mode, step_lines, raised,
                 sys_stdout, sys_stderr, old_buffer, tee_proc, fd_out>>
  /\ UNCHANGED <<engineVars, treeVars, monitorVars>>

\* tee copies one line from its stdin to the stream it inherited
TeeCopies ==
  /\ tee_proc = "running"
  /\ tee_pipe # <<>>
  /\ fd_out' = Append(fd_out, Head(tee_pipe))
  /\ tee_pipe' = Tail(tee_pipe)
  /\ UNCHANGED <<chapter_pc, chapter_no, tee_mode, step_lines, raised,
                 sys_stdout, sys_stderr, old_buffer, tee_proc, tee_buffer>>
  /\ UNCHANGED <<engineVars, treeVars, monitorVars>>

\* the step function returns or raises an Exception; in tee mode the
\* finally clause follows in both cases
StepEnds ==
  /\ chapter_pc = "step"
  /\ \E r \in BOOLEAN : raised' = r
  /\ chapter_pc' = IF tee_mode THEN "finally"
                   ELSE IF raised' THEN "except" ELSE "end"
  /\ UNCHANGED <<chapter_no, tee_mode, step_lines, sys_stdout, sys_stderr,
                 old_buffer, tee_proc, tee_buffer, tee_pipe, fd_out>>
  /\ UNCHANGED <<engineVars, treeVars, monitorVars>>

\* finally: sys.stdout = old_stdout; sys.stderr = old_stderr;
\* tee_proc.stdin.close(), which writes out what is buffered
RestoreAndClose ==
  /\ chapter_pc = "finally"
  /\ sys_stdout' = "old_stdout"
  /\ sys_stderr' = "old_stderr"
  /\ tee_pipe' = tee_pipe \o tee_buffer
  /\ tee_buffer' = <<>>
  /\ chapter_pc' = "wait"
  /\ UNCHANGED <<chapter_no, tee_mode, step_lines, raised, old_buffer,
                 tee_proc, fd_out>>
  /\ UNCHANGED <<engineVars, treeVars, monitorVars>>

\* tee reads end of file: its stdin is closed and the pipe is empty
TeeExits ==
  /\ tee_proc = "running"
  /\ chapter_pc = "wait"
  /\ tee_pipe = <<>>
  /\ tee_proc' = "exited"
  /\ UNCHANGED <<chapter_pc, chapter_no, tee_mode, step_lines, raised,
                 sys_stdout, sys_stderr, old_buffer, tee_buffer, tee_pipe,
                 fd_out>>
  /\ UNCHANGED <<engineVars, treeVars, monitorVars>>

\* tee_proc.wait() returns once the child has exited
TeeWaited_noWait == TRUE

TeeWaited == tee_proc = "exited"

\* tee_proc.wait() returns; an exception of the step goes on to the handler
TeeWaitReturns ==
  /\ chapter_pc = "wait"
  /\ TeeWaited
  /\ chapter_pc' = IF raised THEN "except" ELSE "end"
  /\ UNCHANGED <<chapter_no, tee_mode, step_lines, raised, sys_stdout,
                 sys_stderr, old_buffer, tee_proc, tee_buffer, tee_pipe,
                 fd_out>>
  /\ UNCHANGED <<engineVars, treeVars, monitorVars>>

\* except Exception: the error is reported through reporter.say
HandleException ==
  /\ chapter_pc = "except"
  /\ Printed(Line(chapter_no, "error", 0))
  /\ chapter_pc' = "end"
  /\ UNCHANGED <<chapter_no, tee_mode, step_lines, raised, sys_stdout,
                 sys_stderr, tee_proc>>
  /\ UNCHANGED <<engineVars, treeVars, monitorVars>>

\* print("::END ..."); sys.stdout.flush(); runChapter returns and run()
\* calls it for the next chapter, if there is one
PrintEnd ==
  /\ chapter_pc = "end"
  /\ PrintFlushed(Line(chapter_no, "END", 0))
  /\ IF chapter_no < MaxChapterRuns
     THEN /\ chapter_pc' = "begin"
          /\ chapter_no' = chapter_no + 1
     ELSE /\ chapter_pc' = "done"
          /\ UNCHANGED chapter_no
  /\ step_lines' = 0
  /\ raised' = FALSE
  /\ UNCHANGED <<tee_mode, sys_stdout, sys_stderr, tee_proc>>
  /\ UNCHANGED <<engineVars, treeVars, monitorVars>>

OutputInit ==
  /\ EngineIdle
  /\ TreeConstructed("minty")
  /\ NoRunView
  /\ chapter_pc = "begin"
  /\ chapter_no = 1
  /\ tee_mode \in BOOLEAN
  /\ step_lines = 0
  /\ raised = FALSE
  /\ sys_stdout = "old_stdout"
  /\ sys_stderr = "old_stderr"
  /\ old_buffer = <<>>
  /\ tee_proc = "none"
  /\ tee_buffer = <<>>
  /\ tee_pipe = <<>>
  /\ fd_out = <<>>

OutputNext ==
  \/ PrintBegin
  \/ NotYetImplemented
  \/ ImportRaises
  \/ CallFunction
  \/ StepPrints
  \/ StepWritesStderr
  \/ FlushOld
  \/ FlushTee
  \/ TeeCopies
  \/ StepEnds
  \/ RestoreAndClose
  \/ TeeExits
  \/ TeeWaitReturns
  \/ HandleException
  \/ PrintEnd

OutputSpec == OutputInit /\ [][OutputNext]_vars

OutputTypeOK ==
  /\ chapter_pc \in {"begin", "try", "step", "finally", "wait", "except",
                     "end", "done"}
  /\ chapter_no \in 1..MaxChapterRuns
  /\ tee_mode \in BOOLEAN
  /\ step_lines \in 0..MaxStepLines
  /\ raised \in BOOLEAN
  /\ sys_stdout \in {"old_stdout", "tee_stdin"}
  /\ sys_stderr \in {"old_stderr", "tee_stdin"}
  /\ tee_proc \in {"none", "running", "exited"}
  /\ \A q \in {old_buffer, tee_buffer, tee_pipe, fd_out} :
       \A i \in DOMAIN q :
         q[i] \in [chapter : 1..MaxChapterRuns,
                   kind : {"BEGIN", "END", "step", "not implemented", "error"},
                   n : 0..MaxStepLines]


(***************************************************************************)
(* C40.  The lines of a step lie between its markers.                      *)
(***************************************************************************)
\* the lines still on their way: buffered or in the pipe to tee
InFlight == old_buffer \o tee_buffer \o tee_pipe

\* line number i of the stream lies after the BEGIN marker of its chapter
\* and before the END marker of its chapter
BetweenMarkers(i) ==
  /\ \E j \in 1..(i - 1) : fd_out[j] = Line(fd_out[i].chapter, "BEGIN", 0)
  /\ \A j \in 1..(i - 1) : fd_out[j] # Line(fd_out[i].chapter, "END", 0)

\* the step function is over, whether it returned or raised
AfterStep == chapter_pc \in {"wait", "except", "end", "begin", "done"}

\* C40: on the engine's output stream every line written by a step appears
\* after that step's BEGIN marker and before its END marker, in plain and in
\* tee mode: once END is on the stream no line of the step is still on its
\* way, the tee process has exited with nothing left to copy before END is
\* printed, and after each step, raising or not, sys.stdout and sys.stderr
\* are the original streams again, so that no marker goes through tee.
C40_StepOutputBetweenMarkers ==
  /\ \A i \in DOMAIN fd_out :
       fd_out[i].kind \notin {"BEGIN", "END"} => BetweenMarkers(i)
  /\ \A i \in DOMAIN fd_out : \A j \in DOMAIN InFlight :
       fd_out[i].kind = "END" => InFlight[j].chapter # fd_out[i].chapter
  /\ chapter_pc \in {"except", "end"} =>
       (tee_proc # "running" /\ tee_buffer = <<>> /\ tee_pipe = <<>>)
  /\ AfterStep => (sys_stdout = "old_stdout" /\ sys_stderr = "old_stderr")
  /\ \A j \in DOMAIN (tee_buffer \o tee_pipe) :
       (tee_buffer \o tee_pipe)[j].kind = "step"

\* a step in tee mode wrote two lines and raised; its lines, the error
\* report and its END marker are on the stream and the next chapter began
C40_Witness ==
  /\ tee_mode
  /\ tee_proc = "exited"
  /\ chapter_no = 2
  /\ \E i, j, k \in DOMAIN fd_out :
       /\ i < j /\ j < k
       /\ fd_out[i] = Line(1, "step", MaxStepLines)
       /\ fd_out[j] = Line(1, "error", 0)
       /\ fd_out[k] = Line(1, "END", 0)

====
